---------------------------- MODULE Spec2Model ----------------------------
(***************************************************************************)
(* A model of cachevoice, a caching proxy in front of text-to-speech       *)
(* providers: the normalizer, the HotCache, the SQLite catalog             *)
(* (CacheMetadataDB), the FuzzyCacheStorage, the CacheEvictor, the startup *)
(* integrity check and the /v1/audio/speech request pipeline.              *)
(*                                                                         *)
(* Conventions.  A text is a sequence of characters, a character is a      *)
(* one-element string; the non-ASCII characters the normalizer treats      *)
(* specially are written by their code point ("U+0130" is the dotted       *)
(* capital I).  MD5 (store.py:_make_filename) is taken to be injective on  *)
(* the keys that occur, so a file name is the key it was derived from.     *)
(* Columns of cache_entries that no operation reads back (text_original,   *)
(* model, file_size, duration_ms) are left out of a row.                   *)
(***************************************************************************)
EXTENDS Integers, Sequences, FiniteSets, TLC

VARIABLES
    catalog,      \* cache_entries: the set of rows of the SQLite table
    nextId,       \* the AUTOINCREMENT counter of cache_entries.id
    hot,          \* HotCache._buckets: voice -> fingerprint -> list of paths
    files,        \* the file system: path -> content, for the files that exist
    now,          \* CURRENT_TIMESTAMP, in days
    reqs,         \* audio_speech coroutines suspended at an await
    started,      \* number of requests received so far
    calls,        \* number of provider calls made so far (gateway.synthesize)
    last,         \* what the operation that completed last did and returned
    evictor,      \* the CacheEvictor: max_entries, min_age_days, hot_cache given
    settings,     \* Settings.cache: the fuzzy configuration
    write_counter,\* server.py _write_counter
    stored,       \* history: what the miss path stored per (text, voice, format)
                  \* since the last eviction or clear
    circuit,      \* FallbackOrchestrator._circuit: provider -> _CircuitState
    walks,        \* synthesize coroutines suspended at a provider call
    clock,        \* the monotonic clock now_fn, in seconds
    gateway,      \* FallbackOrchestrator: threshold, window and cooldown
    walked,       \* number of synthesize calls started so far
    variety_in_flight, \* the single-flight set of background variety generation
    tasks,        \* background variety tasks suspended at their provider call
    schema        \* the database file: schema_version and the tables it holds

vars == <<catalog, nextId, hot, files, now, reqs, started, calls, last, evictor,
         settings, write_counter, stored, circuit, walks, clock, gateway, walked,
         variety_in_flight, tasks, schema>>

\* the state of the FallbackOrchestrator
gatewayVars == <<circuit, walks, clock, gateway, walked>>

\* the state of background variety generation
varietyVars == <<variety_in_flight, tasks>>

-----------------------------------------------------------------------------
(* Bounds of the model.                                                    *)

MaxTime == 1
MaxRequests == 2
MaxInflight == 2
MaxDbCalls == 3
MaxEntriesSetting == 2
MinAgeDays == 0
MaxTextLength == 2

-----------------------------------------------------------------------------
(* Characters.                                                             *)

AsciiLower == <<"a","b","c","d","e","f","g","h","i","j","k","l","m",
                "n","o","p","q","r","s","t","u","v","w","x","y","z">>
AsciiUpper == <<"A","B","C","D","E","F","G","H","I","J","K","L","M",
                "N","O","P","Q","R","S","T","U","V","W","X","Y","Z">>
\* C-cedilla, G-breve, O-diaeresis, S-cedilla, U-diaeresis: capital, small
TurkishUpper == <<"U+00C7", "U+011E", "U+00D6", "U+015E", "U+00DC">>
TurkishLower == <<"U+00E7", "U+011F", "U+00F6", "U+015F", "U+00FC">>
DottedCapitalI == "U+0130"
DotlessSmallI == "U+0131"
CombiningDot == "U+0307"

Range(s) == {s[i] : i \in 1..Len(s)}
IndexOf(s, c) == CHOOSE i \in 1..Len(s) : s[i] = c

IsDigit(c) == c \in {"0","1","2","3","4","5","6","7","8","9"}
IsSpace(c) == c \in {" ", "\t", "\n"}
IsAsciiLower(c) == c \in Range(AsciiLower)
IsLetter(c) == c \in Range(AsciiLower) \cup Range(AsciiUpper)
                     \cup Range(TurkishUpper) \cup Range(TurkishLower)
                     \cup {DottedCapitalI, DotlessSmallI}
\* \w of the re module on str: alphanumerics and the underscore
IsWord(c) == IsLetter(c) \/ IsDigit(c) \/ c = "_"

\* str.lower() on one character; the dotted capital I lowers to two code points
CharLower(c) ==
    IF c \in Range(AsciiUpper) THEN <<AsciiLower[IndexOf(AsciiUpper, c)]>>
    ELSE IF c \in Range(TurkishUpper) THEN <<TurkishLower[IndexOf(TurkishUpper, c)]>>
    ELSE IF c = DottedCapitalI THEN <<"i", CombiningDot>>
    ELSE <<c>>

\* TURKISH_LOWER_MAP = str.maketrans('I<U+0130>', '<U+0131>i')
TURKISH_LOWER_MAP(c) ==
    IF c = "I" THEN DotlessSmallI ELSE IF c = DottedCapitalI THEN "i" ELSE c

\* DIACRITIC_MAP = str.maketrans of c-cedilla g-breve dotless-i o-diaeresis
\* s-cedilla u-diaeresis to 'cgiosu'
DIACRITIC_MAP(c) ==
    IF c \in Range(TurkishLower)
    THEN <<"c","g","o","s","u">>[IndexOf(TurkishLower, c)]
    ELSE IF c = DotlessSmallI THEN "i" ELSE c

-----------------------------------------------------------------------------
(* cache/normalizer.py                                                     *)

RECURSIVE FlatMap(_, _)
\* the concatenation of Op(c) over the characters c of s
FlatMap(Op(_), s) == IF s = <<>> THEN <<>> ELSE Op(Head(s)) \o FlatMap(Op, Tail(s))

Translate(Map(_), s) == [i \in 1..Len(s) |-> Map(s[i])]

RECURSIVE LStrip(_)
LStrip(s) == IF s # <<>> /\ IsSpace(Head(s)) THEN LStrip(Tail(s)) ELSE s

RECURSIVE RStrip(_)
RStrip(s) ==
    IF s # <<>> /\ IsSpace(s[Len(s)]) THEN RStrip(SubSeq(s, 1, Len(s) - 1)) ELSE s

\* str.strip()
Strip(s) == RStrip(LStrip(s))

RECURSIVE RunEnd(_, _, _)
\* the first index >= i of s whose character is not in the class (Len(s)+1 if none)
RunEnd(In(_), s, i) ==
    IF i <= Len(s) /\ In(s[i]) THEN RunEnd(In, s, i + 1) ELSE i

IsPauseChar(c) == IsDigit(c) \/ c = "."
IsTagChar(c) == IsAsciiLower(c) \/ c = "_"

\* the index after a match of <#[\d.]+#> that starts at i, 0 if there is none
PauseMatchEnd(s, i) ==
    IF i + 1 <= Len(s) /\ s[i] = "<" /\ s[i + 1] = "#"
    THEN LET j == RunEnd(IsPauseChar, s, i + 2)
         IN  IF j > i + 2 /\ j + 1 <= Len(s) /\ s[j] = "#" /\ s[j + 1] = ">"
             THEN j + 2 ELSE 0
    ELSE 0

\* the index after a match of \([a-z_]+\) that starts at i, 0 if there is none
InterjectionMatchEnd(s, i) ==
    IF i <= Len(s) /\ s[i] = "("
    THEN LET j == RunEnd(IsTagChar, s, i + 1)
         IN  IF j > i + 1 /\ j <= Len(s) /\ s[j] = ")" THEN j + 1 ELSE 0
    ELSE 0

RECURSIVE ReSub(_, _, _, _)
\* re.sub(pattern, repl, s) from index i on: leftmost non-overlapping matches
ReSub(MatchEnd(_, _), repl, s, i) ==
    IF i > Len(s) THEN <<>>
    ELSE LET e == MatchEnd(s, i)
         IN  IF e > 0 THEN repl \o ReSub(MatchEnd, repl, s, e)
             ELSE <<s[i]>> \o ReSub(MatchEnd, repl, s, i + 1)

SpaceRunEnd(s, i) ==
    IF i <= Len(s) /\ IsSpace(s[i]) THEN RunEnd(IsSpace, s, i) ELSE 0
\* the mutated pattern: \d in place of \d+
DigitRunEnd_Each(s, i) ==
    IF i <= Len(s) /\ IsDigit(s[i]) THEN i + 1 ELSE 0
DigitRunEnd(s, i) ==
    IF i <= Len(s) /\ IsDigit(s[i]) THEN RunEnd(IsDigit, s, i) ELSE 0
PunctEnd(s, i) ==
    IF i <= Len(s) /\ ~IsWord(s[i]) /\ ~IsSpace(s[i]) THEN i + 1 ELSE 0

turkish_lower(text) == FlatMap(CharLower, Translate(TURKISH_LOWER_MAP, text))

\* NormalizeConfig() of config.py: every stage enabled
DefaultNormalizeConfig ==
    [lowercase |-> TRUE, strip_punctuation |-> TRUE, collapse_whitespace |-> TRUE,
     replace_numbers |-> TRUE, strip_minimax |-> TRUE]

normalize(text0, config) ==
    LET t0 == Strip(text0)
        t1 == IF config.strip_minimax
              THEN ReSub(InterjectionMatchEnd, <<>>, ReSub(PauseMatchEnd, <<>>, t0, 1), 1)
              ELSE t0
        t2 == IF config.lowercase
              THEN Translate(DIACRITIC_MAP, turkish_lower(t1)) ELSE t1
        t3 == IF config.collapse_whitespace
              THEN ReSub(SpaceRunEnd, <<" ">>, t2, 1) ELSE t2
        t4 == IF config.strip_punctuation THEN ReSub(PunctEnd, <<>>, t3, 1) ELSE t3
        t5 == IF config.replace_numbers THEN ReSub(DigitRunEnd, <<"#">>, t4, 1) ELSE t4
    IN  IF t0 = <<>> THEN <<>> ELSE Strip(t5)


-----------------------------------------------------------------------------
(* cache/metadata.py: CacheMetadataDB over the table cache_entries.        *)
(* A row is a record; an optional version argument is a set: {} when the   *)
(* caller omits it, {n} when it passes n.                                  *)

Row(id, fp, voice, path, fmt, filler, ver, t) ==
    [id |-> id, text_normalized |-> fp, voice_id |-> voice, audio_path |-> path,
     audio_format |-> fmt, hit_count |-> 0, is_filler |-> filler,
     version_num |-> ver, created_at |-> t, last_hit_at |-> t]

\* a unique index that leaves version_num out (the v1 key)
UniqueIndexHit_NoVersion(cat, fp, voice, ver) ==
    \E r \in cat : r.text_normalized = fp /\ r.voice_id = voice

\* idx_normalized_voice_version: the UNIQUE index of _create_tables_v2
UniqueIndexHit(cat, fp, voice, ver) ==
    \E r \in cat : /\ r.text_normalized = fp
                   /\ r.voice_id = voice
                   /\ r.version_num = ver

\* add_entry: the INSERT raises sqlite3.IntegrityError on the unique index
add_entry(cat, nid, t, fp, voice, path, fmt, filler, ver) ==
    IF UniqueIndexHit(cat, fp, voice, ver)
    THEN [error |-> "IntegrityError", catalog |-> cat, nextId |-> nid]
    ELSE [error |-> "none", nextId |-> nid + 1,
          catalog |-> cat \cup {Row(nid, fp, voice, path, fmt, filler, ver, t)}]

\* the mutated UPDATE: it changes no row
record_hit_Noop(cat, t, fp, voice, vers) == cat

\* record_hit: one UPDATE, with or without the version_num condition
record_hit(cat, t, fp, voice, vers) ==
    LET match(r) == /\ r.text_normalized = fp
                    /\ r.voice_id = voice
                    /\ (vers = {} \/ r.version_num \in vers)
    IN  {IF match(r)
         THEN [r EXCEPT !.hit_count = @ + 1, !.last_hit_at = t]
         ELSE r : r \in cat}

get_version_count(cat, fp, voice) ==
    Cardinality({r \in cat : r.text_normalized = fp /\ r.voice_id = voice})

\* delete_entry: the path of the deleted row, as a set ({} for None)
delete_entry_path(cat, id) == {r.audio_path : r \in {x \in cat : x.id = id}}
\* the mutated DELETE: the path is returned and the row stays
delete_entry_Kept(cat, id) == cat
delete_entry(cat, id) == {r \in cat : r.id # id}

\* delete_all returns every audio_path and empties the table
delete_all_paths(cat) == {r.audio_path : r \in cat}

\* get_all_entries_with_ids and delete_entries_by_ids: server.py calls them,
\* metadata.py does not define them; they are taken as documented (the
\* columns of get_all_entries plus id; a batch delete)
get_all_entries_with_ids(cat) == cat
delete_entries_by_ids(cat, ids) == {r \in cat : r.id \notin ids}

\* every sequence that lists the rows of S once, in ascending order of Key;
\* rows with equal keys come in any order (ORDER BY leaves it open)
OrderedBy(S, Key(_)) ==
    LET n == Cardinality(S)
    IN  {s \in [1..n -> S] :
            /\ \A i, j \in 1..n : i < j => s[i] # s[j] /\ Key(s[i]) <= Key(s[j])}

CreatedAt(r) == r.created_at
LastHitAt(r) == r.last_hit_at
Prefix(s, n) == SubSeq(s, 1, IF n < Len(s) THEN n ELSE Len(s))

\* SELECT id, audio_path: the dict made of a selected row has these two keys
Selected(rows) ==
    [i \in 1..Len(rows) |-> [id |-> rows[i].id, audio_path |-> rows[i].audio_path]]

\* the first SELECT without its is_filler condition
PrimaryCandidates_WithFillers(cat, t, min_age_days) ==
    {r \in cat : r.hit_count = 0 /\ r.created_at < t - min_age_days}

\* the first SELECT of get_eviction_candidates
PrimaryCandidates(cat, t, min_age_days) ==
    {r \in cat : ~r.is_filler /\ r.hit_count = 0 /\ r.created_at < t - min_age_days}

\* the second SELECT of get_eviction_candidates, before its LIMIT
ExtraPool(cat) == {r \in cat : ~r.is_filler}

\* get_eviction_candidates: the lists it can return
get_eviction_candidates(cat, t, max_entries, min_age_days) ==
    LET primary == PrimaryCandidates(cat, t, min_age_days)
        current_count == Cardinality(cat)
        extra_needed == current_count - Cardinality(primary) - max_entries
        result == OrderedBy(primary, CreatedAt)
    IN  IF current_count - Cardinality(primary) > max_entries
        THEN {Selected(p \o Prefix(e, extra_needed)) :
                 p \in result, e \in OrderedBy(ExtraPool(cat), LastHitAt)}
        ELSE {Selected(p) : p \in result}

-----------------------------------------------------------------------------
(* cache/hot.py: HotCache.  _buckets is a function from the keys           *)
(* <<voice, fingerprint>> that are present to their lists of paths.        *)

get_paths(h, fp, voice) ==
    IF <<voice, fp>> \in DOMAIN h THEN h[<<voice, fp>>] ELSE <<>>

HotPut(h, key, paths) ==
    [k \in DOMAIN h \cup {key} |-> IF k = key THEN paths ELSE h[k]]

\* the mutated add: the path is appended whatever the list holds
hot_add_Always(h, fp, voice, path, variety_depth) ==
    HotPut(h, <<voice, fp>>, Append(get_paths(h, fp, voice), path))

\* HotCache.add: a path already listed, or a list at the cap, is left alone
hot_add(h, fp, voice, path, variety_depth) ==
    LET paths == get_paths(h, fp, voice)
    IN  IF path \notin Range(paths) /\ Len(paths) < variety_depth
        THEN HotPut(h, <<voice, fp>>, Append(paths, path))
        ELSE h

\* the mutated remove: the fingerprint is dropped from every bucket
hot_remove_AllVoices(h, fp, voice) == [k \in {x \in DOMAIN h : x[2] # fp} |-> h[k]]

\* HotCache.remove: pops the whole key
hot_remove(h, fp, voice) == [k \in DOMAIN h \ {<<voice, fp>>} |-> h[k]]

\* HotCache.clear
hot_clear == << >>

RECURSIVE load_from(_, _)
load_from(h, rows) ==
    IF rows = <<>> THEN h
    ELSE LET e == Head(rows)
             paths == get_paths(h, e.text_normalized, e.voice_id)
         IN  load_from(IF e.audio_path \in Range(paths) THEN h
                       ELSE HotPut(h, <<e.voice_id, e.text_normalized>>,
                                   Append(paths, e.audio_path)),
                       Tail(rows))

RowId(r) == r.id
\* HotCache.load_entries over get_all_entries (rows in rowid order): no cap
load_entries(h, cat) == load_from(h, CHOOSE s \in OrderedBy(cat, RowId) : TRUE)

\* the mutated lookup: the fingerprint is looked up in every bucket
exact_lookup_AnyVoice(h, fp, voice) ==
    UNION {Range(h[k]) : k \in {x \in DOMAIN h : x[2] = fp}}

\* exact_lookup: the paths it can return ({} for None); random.choice picks
\* any of several
exact_lookup(h, fp, voice) == Range(get_paths(h, fp, voice))

\* HotCache.size
hot_size(h) == Cardinality(DOMAIN h)

-----------------------------------------------------------------------------
(* rapidfuzz fuzz.token_sort_ratio and process.extractOne, as               *)
(* HotCache.fuzzy_lookup uses them.                                        *)

\* the characters a fingerprint can hold, in code point order
CodePointOrder == <<" ", "#", "_">> \o AsciiLower \o <<CombiningDot>>
Ord(c) == IF c \in Range(CodePointOrder) THEN IndexOf(CodePointOrder, c)
          ELSE Len(CodePointOrder) + 1

RECURSIVE StrLess(_, _)
\* s < t on str
StrLess(s, t) ==
    IF t = <<>> THEN FALSE
    ELSE IF s = <<>> THEN TRUE
    ELSE IF Head(s) = Head(t) THEN StrLess(Tail(s), Tail(t))
    ELSE Ord(Head(s)) < Ord(Head(t))

RECURSIVE Split(_)
\* str.split(): the maximal runs of non-space characters
Split(s) ==
    LET t == LStrip(s)
        n == RunEnd(LAMBDA c : ~IsSpace(c), t, 1)
    IN  IF t = <<>> THEN <<>>
        ELSE <<SubSeq(t, 1, n - 1)>> \o Split(SubSeq(t, n, Len(t)))

RECURSIVE InsertSorted(_, _)
InsertSorted(tok, toks) ==
    IF toks = <<>> THEN <<tok>>
    ELSE IF StrLess(Head(toks), tok) THEN <<Head(toks)>> \o InsertSorted(tok, Tail(toks))
    ELSE <<tok>> \o toks

RECURSIVE Sorted(_)
Sorted(toks) == IF toks = <<>> THEN <<>> ELSE InsertSorted(Head(toks), Sorted(Tail(toks)))

RECURSIVE Join(_)
\* " ".join(tokens)
Join(toks) ==
    IF toks = <<>> THEN <<>>
    ELSE IF Len(toks) = 1 THEN Head(toks)
    ELSE Head(toks) \o <<" ">> \o Join(Tail(toks))

RECURSIVE LCS(_, _)
\* length of a longest common subsequence
LCS(s, t) ==
    IF s = <<>> \/ t = <<>> THEN 0
    ELSE IF Head(s) = Head(t) THEN 1 + LCS(Tail(s), Tail(t))
    ELSE LET a == LCS(Tail(s), t)
             b == LCS(s, Tail(t))
         IN  IF a >= b THEN a ELSE b

\* token_sort_ratio(s, t) as the fraction num/den of 100: the normalised
\* Indel similarity 2*LCS/(len + len) of the sorted, re-joined tokens
token_sort_ratio(s, t) ==
    LET a == Join(Sorted(Split(s)))
        b == Join(Sorted(Split(t)))
    IN  IF Len(a) + Len(b) = 0 THEN [num |-> 1, den |-> 1]
        ELSE [num |-> 2 * LCS(a, b), den |-> Len(a) + Len(b)]

\* score x >= score y
ScoreGeq(x, y) == x.num * y.den >= y.num * x.den
\* score x >= the cutoff, a number out of 100
ScorePasses(x, threshold) == 100 * x.num >= threshold * x.den

\* HotCache.fuzzy_lookup: the (matched_text, paths[0]) pairs it can return
\* ({} for None); among equal best scores extractOne takes the first key of
\* the dict, which the model leaves open
fuzzy_lookup(h, fp, voice, threshold) ==
    LET candidates == {k[2] : k \in {x \in DOMAIN h : x[1] = voice}}
        passing == {c \in candidates : ScorePasses(token_sort_ratio(fp, c), threshold)}
        best == {c \in passing :
                    \A d \in passing :
                       ScoreGeq(token_sort_ratio(fp, c), token_sort_ratio(fp, d))}
    IN  {[matched |-> c, audio_path |-> h[<<voice, c>>][1]] : c \in best}

-----------------------------------------------------------------------------
(* cache/matcher.py: FuzzyMatcher.find, the results it can return ({} for  *)
(* None).                                                                  *)

\* find from its second line on, given normalized = normalize(text)
find_normalized(h, normalized, voice, fuzzy_enabled, threshold) ==
    IF normalized = <<>> THEN {}
    ELSE IF exact_lookup(h, normalized, voice) # {}
    THEN {[audio_path |-> path, match_type |-> "exact", normalized |-> normalized] :
             path \in exact_lookup(h, normalized, voice)}
    ELSE IF ~fuzzy_enabled THEN {}
    ELSE {[audio_path |-> m.audio_path, match_type |-> "fuzzy",
           normalized |-> normalized, matched |-> m.matched] :
             m \in fuzzy_lookup(h, normalized, voice, threshold)}

find(h, text, voice, fuzzy_enabled, threshold) ==
    UNION {find_normalized(h, normalized, voice, fuzzy_enabled, threshold) :
              normalized \in {normalize(text, DefaultNormalizeConfig)}}

-----------------------------------------------------------------------------
(* cache/store.py: FuzzyCacheStorage.                                      *)
(* A path is the directory it lies in and the key its name was hashed      *)
(* from; content is the provider call that produced it and its format.     *)

AudioSuffixes == {"mp3", "ogg", "wav", "opus"}

\* _make_filename: the version enters the key only when it is above 1
_make_filename(fp, voice, fmt, version_num) ==
    [dir |-> "audio", fp |-> fp, voice |-> voice,
     ver |-> IF version_num <= 1 THEN 1 ELSE version_num, ext |-> fmt]

Exists(fs, path) == path \in DOMAIN fs
write_bytes(fs, path, data) ==
    [q \in DOMAIN fs \cup {path} |-> IF q = path THEN data ELSE fs[q]]
Unlink(fs, paths) == [q \in DOMAIN fs \ paths |-> fs[q]]

\* the mutated choice: the next version, whatever the depth
VersionChoice_Next(existing_versions, variety_depth) == existing_versions + 1

\* min(existing_versions + 1, self._variety_depth)
VersionChoice(existing_versions, variety_depth) ==
    IF existing_versions + 1 < variety_depth
    THEN existing_versions + 1 ELSE variety_depth

\* store(text, voice, audio, format, version): db is TRUE when the storage was
\* built with metadata_db; vers is {} when the caller passes no version.
\* The file is written and the HotCache updated before add_entry runs.
store(cat, nid, h, fs, t, fp, voice, audio_data, fmt, vers, db, variety_depth) ==
    LET version_num ==
            IF vers = {} /\ db
            THEN VersionChoice(get_version_count(cat, fp, voice), variety_depth)
            ELSE IF vers = {} THEN 1 ELSE CHOOSE v \in vers : TRUE
        filepath == _make_filename(fp, voice, fmt, version_num)
        added == IF db
                 THEN add_entry(cat, nid, t, fp, voice, filepath, fmt, FALSE, version_num)
                 ELSE [error |-> "none", catalog |-> cat, nextId |-> nid]
    IN  [error |-> added.error, path |-> filepath, version_num |-> version_num,
         catalog |-> added.catalog, nextId |-> added.nextId,
         hot |-> hot_add(h, fp, voice, filepath, variety_depth),
         files |-> write_bytes(fs, filepath, audio_data)]

-----------------------------------------------------------------------------
(* gateway/fallback.py: the FallbackOrchestrator.  An exception is its     *)
(* class, its status_code attribute and the status code of its response,   *)
(* each a set that is empty when the exception has none.  The circuit      *)
(* states live in a defaultdict: a provider without an entry has a new     *)
(* _CircuitState.                                                          *)

\* tests/test_fallback.py: FallbackOrchestrator(["litellm", "edge_tts"], ...)
FallbackChain == <<"litellm", "edge_tts">>

\* _CircuitState(failures=deque()), open_until = 0.0
NewCircuitState == [failures |-> <<>>, open_until |-> 0]

\* FallbackOrchestrator.__init__: the defaults of the three settings
DefaultGateway == [failure_threshold |-> 3, failure_window_seconds |-> 300,
                   cooldown_seconds |-> 300]

\* _raise_for_status of the provider clients and httpx.HTTPStatusError
HTTPStatusError(code) ==
    [class |-> "HTTPStatusError", status_code |-> {}, response |-> {code}]
\* fastapi.HTTPException(status_code=code)
HTTPException(code) ==
    [class |-> "HTTPException", status_code |-> {code}, response |-> {}]
\* an exception that carries neither a status code nor a response
Plain(class) == [class |-> class, status_code |-> {}, response |-> {}]

\* isinstance(exc, (httpx.TimeoutException, httpx.ConnectError,
\* asyncio.TimeoutError))
NetworkErrors == {"TimeoutException", "ConnectError", "asyncio.TimeoutError"}

_extract_status_code(exc) ==
    IF exc.class = "HTTPException" THEN exc.status_code
    ELSE IF exc.class = "HTTPStatusError" THEN exc.response
    ELSE exc.status_code

\* the mutated classification: every error is retryable
_should_fallback_Always(status_code, exc) == TRUE

_should_fallback(status_code, exc) ==
    IF status_code # {}
    THEN \E code \in status_code :
            IF code = 400 THEN FALSE ELSE IF code = 429 THEN TRUE ELSE code >= 500
    ELSE exc.class \in NetworkErrors

\* the mutated classification: no error is counted
_count_failure_Never(status_code, exc) == FALSE

_count_failure(status_code, exc) ==
    IF status_code # {}
    THEN \E code \in status_code : code = 429 \/ code >= 500
    ELSE exc.class \in NetworkErrors

\* while state.failures and state.failures[0] < cutoff: popleft()
RECURSIVE PopOld(_, _)
PopOld(failures, cutoff) ==
    IF failures # <<>> /\ Head(failures) < cutoff
    THEN PopOld(Tail(failures), cutoff) ELSE failures

_prune_old_failures(state, t, cfg) ==
    [state EXCEPT !.failures = PopOld(@, t - cfg.failure_window_seconds)]

\* the mutated comparison: the circuit opens one failure late
ThresholdReached_Late(n, cfg) == n > cfg.failure_threshold

\* len(state.failures) >= self._failure_threshold
ThresholdReached(n, cfg) == n >= cfg.failure_threshold

\* the queue of _record_failure after prune and append
Recorded(state, t, cfg) == Append(_prune_old_failures(state, t, cfg).failures, t)

_record_failure(state, t, cfg) ==
    [failures |-> Recorded(state, t, cfg),
     open_until |-> IF ThresholdReached(Len(Recorded(state, t, cfg)), cfg)
                    THEN t + cfg.cooldown_seconds ELSE state.open_until]

\* the mutated clear: the bookkeeping is left as it is
_clear_failures_Noop(state) == state

_clear_failures(state) == [failures |-> <<>>, open_until |-> 0]

\* _is_circuit_open: what it returns and the state it leaves
_is_circuit_open(state, t, cfg) ==
    IF state.open_until > t
    THEN [open |-> TRUE, state |-> _prune_old_failures(state, t, cfg)]
    ELSE [open |-> FALSE,
          state |-> [_prune_old_failures(state, t, cfg) EXCEPT !.open_until = 0]]

\* the status code of the HTTPException that _to_http_exception returns
_to_http_exception(exc, status_code) ==
    IF status_code # {} THEN CHOOSE code \in status_code : TRUE ELSE 503

\* the mutated exhaustion: another status code
AllProvidersFailed_502(errors) == [status_code |-> 502, detail |-> errors]

\* HTTPException(status_code=503, detail="TTS unavailable: ..." + errors)
AllProvidersFailed(errors) == [status_code |-> 503, detail |-> errors]

\* the mutated dispatch: every name of the chain is sent to the router
_call_provider_Router(provider_name) == "litellm_router"

\* _call_provider: the client a name of the chain stands for
_call_provider(provider_name) ==
    IF provider_name = "litellm" THEN "litellm_router"
    ELSE IF provider_name \in {"edge", "edge_tts", "edgetts"} THEN "edge_provider"
    ELSE "unknown"

\* for provider_name in self._fallback_chain: the provider after the i-th
NextProvider(i) == i + 1

\* a synthesize call that has not reached a provider yet.  called, skipped
\* and probed record the providers it invoked, skipped and invoked after
\* clearing an expired open_until; errors is the list of the same name
NewWalk(id) == [id |-> id, pos |-> 0, called |-> <<>>, skipped |-> <<>>,
                errors |-> <<>>, probed |-> {}]

\* the loop of synthesize from the i-th provider up to the next provider
\* call or the end of the chain
RECURSIVE walk_from(_, _, _, _, _)
walk_from(circ, w, i, t, cfg) ==
    IF i > Len(FallbackChain) THEN [circuit |-> circ, walk |-> [w EXCEPT !.pos = i]]
    ELSE IF _is_circuit_open(circ[FallbackChain[i]], t, cfg).open
    THEN walk_from([circ EXCEPT ![FallbackChain[i]] = _is_circuit_open(@, t, cfg).state],
                   [w EXCEPT !.skipped = Append(@, FallbackChain[i])],
                   NextProvider(i), t, cfg)
    ELSE [circuit |-> [circ EXCEPT
                          ![FallbackChain[i]] = _is_circuit_open(@, t, cfg).state],
          walk |-> [w EXCEPT !.pos = i,
                             !.called = Append(@, FallbackChain[i]),
                             !.probed = IF circ[FallbackChain[i]].open_until # 0
                                        THEN @ \cup {FallbackChain[i]} ELSE @]]

-----------------------------------------------------------------------------
(* The catalog on its own: calls of the CacheMetadataDB methods.           *)

\* metadata.py: CURRENT_SCHEMA_VERSION
CURRENT_SCHEMA_VERSION == 2

Voices == {"v1", "v2"}
Versions == 1..2
NoOp == [op |-> "none"]

CatalogFps == {<<"a">>, <<"b">>}

\* config.py EvictionConfig scaled to the model; server.py builds the evictor
\* without a hot_cache
DefaultEvictor == [max_entries |-> MaxEntriesSetting, min_age_days |-> MinAgeDays,
                   hot_cache |-> FALSE]

\* config.py FuzzyConfig: fuzzy matching is off by default
DefaultSettings == [fuzzy_enabled |-> FALSE]

\* the parts of the state that belong to the request pipeline, at rest
\* the FallbackOrchestrator after construction, no call made
GatewayIdle ==
    /\ circuit = [p \in Range(FallbackChain) |-> NewCircuitState]
    /\ walks = {} /\ clock = 0 /\ walked = 0

\* the database after CacheMetadataDB.__init__: the recorded version is the
\* current one, cache_entries exists and has the version_num column
SchemaOpened ==
    schema = [version |-> CURRENT_SCHEMA_VERSION, table |-> TRUE, version_num |-> TRUE]

\* no background variety generation
VarietyIdle == variety_in_flight = {} /\ tasks = {}

Untouched ==
    /\ settings = DefaultSettings /\ write_counter = 0 /\ stored = << >>
    /\ GatewayIdle /\ gateway = DefaultGateway /\ VarietyIdle /\ SchemaOpened

CatalogInit ==
    /\ catalog = {} /\ nextId = 1 /\ hot = << >> /\ files = << >>
    /\ now = 0 /\ reqs = {} /\ started = 0 /\ calls = 0
    /\ last = NoOp /\ evictor = DefaultEvictor /\ Untouched

Tick ==
    /\ now < MaxTime
    /\ now' = now + 1
    /\ UNCHANGED <<catalog, nextId, hot, files, reqs, started, calls, last, evictor, varietyVars, schema, gatewayVars, settings, write_counter, stored>>

DbAddEntry(fp, voice, ver, filler) ==
    LET res == add_entry(catalog, nextId, now, fp, voice,
                         _make_filename(fp, voice, "mp3", ver), "mp3", filler, ver)
    IN  /\ started < MaxDbCalls
        /\ started' = started + 1
        /\ catalog' = res.catalog
        /\ nextId' = res.nextId
        /\ last' = [op |-> "add_entry", fp |-> fp, voice |-> voice, ver |-> ver,
                    error |-> res.error, before |-> catalog]
        /\ UNCHANGED <<hot, files, now, reqs, calls, evictor, varietyVars, schema, gatewayVars, settings, write_counter, stored>>

DbRecordHit(fp, voice, vers) ==
    /\ started < MaxDbCalls
    /\ started' = started + 1
    /\ catalog' = record_hit(catalog, now, fp, voice, vers)
    /\ last' = [op |-> "record_hit", fp |-> fp, voice |-> voice, vers |-> vers]
    /\ UNCHANGED <<nextId, hot, files, now, reqs, calls, evictor, varietyVars, schema, gatewayVars, settings, write_counter, stored>>

DbDeleteEntry(id) ==
    /\ started < MaxDbCalls
    /\ started' = started + 1
    /\ catalog' = delete_entry(catalog, id)
    /\ last' = [op |-> "delete_entry", paths |-> delete_entry_path(catalog, id)]
    /\ UNCHANGED <<nextId, hot, files, now, reqs, calls, evictor, varietyVars, schema, gatewayVars, settings, write_counter, stored>>

DbDeleteAll ==
    /\ started < MaxDbCalls
    /\ started' = started + 1
    /\ catalog' = {}
    /\ last' = [op |-> "delete_all", paths |-> delete_all_paths(catalog)]
    /\ UNCHANGED <<nextId, hot, files, now, reqs, calls, evictor, varietyVars, schema, gatewayVars, settings, write_counter, stored>>

CatalogNext ==
    \/ \E fp \in CatalogFps, voice \in Voices, ver \in Versions, filler \in BOOLEAN :
          DbAddEntry(fp, voice, ver, filler)
    \/ \E fp \in CatalogFps, voice \in Voices, vers \in {{}, {1}, {2}} :
          DbRecordHit(fp, voice, vers)
    \/ \E id \in 1..MaxDbCalls : DbDeleteEntry(id)
    \/ DbDeleteAll
    \/ Tick

SpecCatalog == CatalogInit /\ [][CatalogNext]_vars

SameTriple(r, fp, voice, ver) ==
    r.text_normalized = fp /\ r.voice_id = voice /\ r.version_num = ver

\* C1: no two rows of the catalog share (text_normalized, voice_id,
\* version_num); an add_entry whose triple is already present fails with
\* IntegrityError (DuplicateEntry) and leaves the rows as they were, and an
\* add_entry whose triple is absent, the same fingerprint under another voice
\* or another version included, inserts exactly the one new row.
C1_UniqueTriple ==
    /\ \A r1, r2 \in catalog :
          SameTriple(r1, r2.text_normalized, r2.voice_id, r2.version_num) => r1 = r2
    /\ last.op = "add_entry" =>
          IF \E r \in last.before : SameTriple(r, last.fp, last.voice, last.ver)
          THEN last.error = "IntegrityError" /\ catalog = last.before
          ELSE /\ last.error = "none"
               /\ last.before \subseteq catalog
               /\ Cardinality(catalog \ last.before) = 1
               /\ \A r \in catalog \ last.before :
                     SameTriple(r, last.fp, last.voice, last.ver)

\* a duplicate was rejected while the same fingerprint is also held under
\* another voice or another version
C1_Witness ==
    /\ last.op = "add_entry" /\ last.error = "IntegrityError"
    /\ \E r \in catalog : /\ r.text_normalized = last.fp
                          /\ \/ r.voice_id # last.voice
                             \/ r.version_num # last.ver

-----------------------------------------------------------------------------
(* cache/evictor.py: CacheEvictor.run over one list of candidates.         *)
(* with_hot is TRUE when the evictor was built with hot_cache.  The loop   *)
(* ends early, with KeyError, when it reads a key the entry does not have. *)

RECURSIVE evict_from(_, _, _, _, _, _)
evict_from(cat, h, fs, candidates, with_hot, removed) ==
    IF candidates = <<>>
    THEN [error |-> "none", catalog |-> cat, hot |-> h, files |-> fs,
          removed |-> removed]
    ELSE LET entry == Head(candidates)
             audio_path == delete_entry_path(cat, entry.id)
             cat1 == delete_entry(cat, entry.id)
             fs1 == Unlink(fs, audio_path)
         IN  IF ~with_hot
             THEN evict_from(cat1, h, fs1, Tail(candidates), with_hot, removed + 1)
             ELSE IF {"text_normalized", "voice_id"} \subseteq DOMAIN entry
             THEN evict_from(cat1, hot_remove(h, entry.text_normalized, entry.voice_id),
                             fs1, Tail(candidates), with_hot, removed + 1)
             ELSE [error |-> "KeyError", catalog |-> cat1, hot |-> h, files |-> fs1,
                   removed |-> removed]

CacheEvictor_run(cat, h, fs, candidates, with_hot) ==
    evict_from(cat, h, fs, candidates, with_hot, 0)

\* one call of CacheEvictor.run()
EvictorRun ==
    \E candidates \in get_eviction_candidates(catalog, now, evictor.max_entries,
                                              evictor.min_age_days) :
       LET res == CacheEvictor_run(catalog, hot, files, candidates, evictor.hot_cache)
       IN  /\ catalog' = res.catalog
           /\ hot' = res.hot
           /\ files' = res.files
           /\ last' = [op |-> "evict", error |-> res.error, removed |-> res.removed,
                       before |-> catalog, files_before |-> files]
           /\ stored' = << >>
           /\ UNCHANGED <<nextId, now, reqs, started, calls, evictor, varietyVars, schema, gatewayVars, settings,
                          write_counter>>

-----------------------------------------------------------------------------
(* The evictor on its own, started on any catalog of up to three rows      *)
(* whose artifacts were written by the store; an artifact may be missing.  *)

EvictKeys == <<[fp |-> <<"a">>, ver |-> 1], [fp |-> <<"a">>, ver |-> 2],
               [fp |-> <<"b">>, ver |-> 1]>>

\* what a key can hold: nothing, or a row with these columns
EvictRowChoices ==
    {[present |-> FALSE]} \cup
    {[present |-> TRUE, filler |-> f, hits |-> hc, created |-> c, hit_at |-> l,
      on_disk |-> d] :
        f \in BOOLEAN, hc \in 0..1, c \in 0..MaxTime, l \in 0..MaxTime, d \in BOOLEAN}

\* a row is never hit before it is created; only the first artifact is
\* taken to be possibly missing
EvictRowOk(i, x) ==
    x.present => /\ x.created <= x.hit_at
                 /\ (x.hits = 0 => x.hit_at = x.created)
                 /\ (i > 1 => x.on_disk)

EvictRowOf(i, x) ==
    [Row(i, EvictKeys[i].fp, "v1",
         _make_filename(EvictKeys[i].fp, "v1", "mp3", EvictKeys[i].ver), "mp3",
         x.filler, EvictKeys[i].ver, x.created)
     EXCEPT !.hit_count = x.hits, !.last_hit_at = x.hit_at]

EvictInit ==
    \E pick \in [1..Len(EvictKeys) -> EvictRowChoices] :
       /\ \A i \in 1..Len(EvictKeys) : EvictRowOk(i, pick[i])
       /\ LET present == {i \in 1..Len(EvictKeys) : pick[i].present}
              rows == {EvictRowOf(i, pick[i]) : i \in present}
              onDisk == {EvictRowOf(i, pick[i]).audio_path :
                            i \in {j \in present : pick[j].on_disk}}
          IN  /\ catalog = rows
              /\ hot = load_entries(<< >>, rows)
              /\ files = [q \in onDisk |-> [src |-> 0, fmt |-> q.ext]]
       /\ nextId = Len(EvictKeys) + 1
       /\ now = MaxTime /\ reqs = {} /\ started = 0 /\ calls = 0
       /\ last = NoOp
       /\ evictor \in [max_entries : 0..MaxEntriesSetting, min_age_days : 0..MaxTime,
                       hot_cache : BOOLEAN]
       /\ Untouched

EvictNext == EvictorRun

SpecEvict == EvictInit /\ [][EvictNext]_vars

\* C5: an evictor run, whatever max_entries and min_age_days are, deletes no
\* row with is_filler = TRUE and no artifact file of such a row, also when
\* more than max_entries rows are left.
C5_FillersSurvive ==
    last.op = "evict" =>
        \A r \in last.before :
            r.is_filler =>
                /\ r \in catalog
                /\ Exists(last.files_before, r.audio_path) =>
                      /\ Exists(files, r.audio_path)
                      /\ files[r.audio_path] = last.files_before[r.audio_path]

\* a run that removed something and left fillers above the cap
C5_Witness ==
    /\ last.op = "evict" /\ last.removed > 0
    /\ Cardinality(catalog) > evictor.max_entries
    /\ \A r \in catalog : r.is_filler /\ Exists(files, r.audio_path)
    /\ catalog # {}

\* C6 as stated: after a completed run the catalog holds at most max_entries
\* rows whenever enough non-filler rows existed to reach the cap.
C6_CapReached ==
    (/\ last.op = "evict" /\ last.error = "none"
     /\ Cardinality({r \in last.before : ~r.is_filler})
            >= Cardinality(last.before) - evictor.max_entries)
    => Cardinality(catalog) <= evictor.max_entries

-----------------------------------------------------------------------------
(* server.py: _startup_integrity_check.                                    *)

RECURSIVE remove_missing(_, _, _)
\* phase 1, the loop: hot_cache.remove for every entry whose file is missing
remove_missing(h, fs, entries) ==
    IF entries = <<>> THEN h
    ELSE LET entry == Head(entries)
         IN  remove_missing(IF ~Exists(fs, entry.audio_path)
                            THEN hot_remove(h, entry.text_normalized, entry.voice_id)
                            ELSE h,
                            fs, Tail(entries))

\* the files the mutated scan visits: it descends into subdirectories
OrphanFiles_Recursive(fs, db_paths) ==
    {f \in DOMAIN fs : f.ext \in AudioSuffixes /\ f \notin db_paths}

\* phase 2, the scan: audio_dir.iterdir() lists what lies directly in the
\* directory; a file with an audio suffix that is not in db_paths is unlinked
OrphanFiles(fs, db_paths) ==
    {f \in DOMAIN fs : f.dir = "audio" /\ f.ext \in AudioSuffixes /\ f \notin db_paths}

\* f.unlink() that lets the error of a file already gone escape
unlink_orphans_Raising(fs, orphans, vanished) ==
    [error |-> IF vanished # {} THEN "OSError" ELSE "none",
     files |-> Unlink(fs, orphans)]

\* f.unlink() under try/except OSError; vanished are the files that went
\* away between the listing and their unlink
unlink_orphans(fs, orphans, vanished) ==
    [error |-> "none", files |-> Unlink(Unlink(fs, vanished), orphans \ vanished)]

_startup_integrity_check(cat, h, fs, vanished) ==
    LET entries == get_all_entries_with_ids(cat)
        listed == CHOOSE s \in OrderedBy(entries, RowId) : TRUE
        orphan_db_ids == {e.id : e \in {x \in entries : ~Exists(fs, x.audio_path)}}
        h1 == remove_missing(h, fs, listed)
        cat1 == delete_entries_by_ids(cat, orphan_db_ids)
        db_paths == {e.audio_path : e \in {x \in entries : x.id \notin orphan_db_ids}}
        done == unlink_orphans(fs, OrphanFiles(fs, db_paths), vanished)
    IN  [error |-> done.error, catalog |-> cat1, hot |-> h1, files |-> done.files]

\* the files a run is about to unlink
OrphansNow ==
    OrphanFiles(files, {r.audio_path : r \in {x \in catalog : Exists(files, x.audio_path)}})

IntegrityDone(res, h0, vanished, again) ==
    /\ catalog' = res.catalog
    /\ hot' = res.hot
    /\ files' = res.files
    /\ last' = [op |-> "integrity", error |-> res.error, again |-> again,
                raced |-> vanished # {},
                raced_before |-> IF again THEN last.raced ELSE FALSE,
                before |-> catalog, hot_before |-> h0, files_before |-> files]
    /\ UNCHANGED <<nextId, now, reqs, started, calls, evictor, varietyVars, schema, gatewayVars, settings, write_counter, stored>>

\* lifespan up to the integrity check: a new process loads the HotCache from
\* the catalog and reconciles
Startup ==
    \E vanished \in SUBSET OrphansNow :
       LET h0 == load_entries(hot_clear, catalog)
       IN  IntegrityDone(_startup_integrity_check(catalog, h0, files, vanished),
                         h0, vanished, FALSE)

\* _startup_integrity_check called again on the same db and store
IntegrityCheck ==
    /\ last.op = "integrity"
    /\ \E vanished \in SUBSET OrphansNow :
          IntegrityDone(_startup_integrity_check(catalog, hot, files, vanished),
                        hot, vanished, TRUE)

-----------------------------------------------------------------------------
(* The reconciler on its own, started on any catalog of up to three rows   *)
(* and an artifact directory that may miss a row's file and may hold an    *)
(* unreferenced audio file, a text file and a file under fillers/.         *)

StrayFiles ==
    {[dir |-> "audio", fp |-> <<"z">>, voice |-> "v1", ver |-> 1, ext |-> "opus"],
     [dir |-> "audio", fp |-> <<"n">>, voice |-> "v1", ver |-> 1, ext |-> "txt"],
     [dir |-> "audio/fillers", fp |-> <<"f">>, voice |-> "v1", ver |-> 1, ext |-> "mp3"]}

IntegrityInit ==
    \E present \in SUBSET (1..Len(EvictKeys)), stray \in SUBSET StrayFiles :
       \E missing \in SUBSET present :
          LET rowOf(i) == Row(i, EvictKeys[i].fp, "v1",
                              _make_filename(EvictKeys[i].fp, "v1", "mp3",
                                             EvictKeys[i].ver),
                              "mp3", FALSE, EvictKeys[i].ver, 0)
              onDisk == {rowOf(i).audio_path : i \in present \ missing} \cup stray
          IN  /\ catalog = {rowOf(i) : i \in present}
              /\ files = [q \in onDisk |-> [src |-> 0, fmt |-> q.ext]]
    /\ hot = hot_clear /\ nextId = Len(EvictKeys) + 1
    /\ now = 0 /\ reqs = {} /\ started = 0 /\ calls = 0
    /\ last = NoOp /\ evictor = DefaultEvictor /\ Untouched

IntegrityNext ==
    \/ Startup
    \/ IntegrityCheck

SpecIntegrity == IntegrityInit /\ [][IntegrityNext]_vars

HotHolds(h, r) == r.audio_path \in Range(get_paths(h, r.text_normalized, r.voice_id))

\* C8 as stated: after a reconciler run every surviving row has its file;
\* a row whose file was missing is gone from the catalog and the HotIndex,
\* a row whose file existed is kept with its file and its HotIndex entry.
C8_SurvivorsIntact ==
    last.op = "integrity" =>
        /\ \A r \in catalog : Exists(files, r.audio_path)
        /\ \A r \in last.before :
              IF Exists(last.files_before, r.audio_path)
              THEN r \in catalog /\ Exists(files, r.audio_path) /\ HotHolds(hot, r)
              ELSE r \notin catalog /\ ~HotHolds(hot, r)

\* C9: a reconciler run removes every file with an audio suffix that lies
\* directly in the artifact directory and is referenced by no surviving row,
\* and leaves every other file (referenced, under fillers/, non-audio) with
\* its content; it creates no file.
C9_OrphanFilesRemoved ==
    last.op = "integrity" =>
        /\ DOMAIN files \subseteq DOMAIN last.files_before
        /\ \A f \in DOMAIN last.files_before :
              IF /\ f.dir = "audio" /\ f.ext \in AudioSuffixes
                 /\ \A r \in catalog : r.audio_path # f
              THEN ~Exists(files, f)
              ELSE Exists(files, f) /\ files[f] = last.files_before[f]

\* a run that removed an unreferenced audio file and kept a referenced
\* file, the file under fillers/ and the text file
C9_Witness ==
    /\ last.op = "integrity"
    /\ StrayFiles \subseteq DOMAIN last.files_before
    /\ \E f \in StrayFiles : ~Exists(files, f)
    /\ \E f \in StrayFiles : f.dir = "audio/fillers" /\ Exists(files, f)
    /\ \E f \in StrayFiles : f.ext = "txt" /\ Exists(files, f)
    /\ \E r \in catalog : Exists(files, r.audio_path)
    /\ catalog # last.before

\* C10: a reconciler run right after another changes neither the catalog,
\* nor the HotIndex, nor the set of files; and a run in which a file went
\* away before its unlink completes without an error.
C10_Idempotent ==
    last.op = "integrity" =>
        /\ last.error = "none"
        /\ last.again =>
              /\ catalog = last.before
              /\ hot = last.hot_before
              /\ files = last.files_before

\* a second run after a first run that met a file already gone; a row
\* survives and an unreferenced file has been removed
C10_Witness ==
    /\ last.op = "integrity" /\ last.again /\ last.raced_before
    /\ catalog # {}
    /\ \E f \in StrayFiles : ~Exists(files, f)

-----------------------------------------------------------------------------
(* server.py: the request pipeline audio_speech, cache_clear and the       *)
(* periodic eviction task.  A request is suspended at its awaits: the      *)
(* provider call (gateway.synthesize) and record_hit_async, which runs     *)
(* record_hit in a worker thread.                                          *)

\* tests/test_cache.py enables fuzzy matching with this threshold
FuzzyThreshold == 60
\* server.py: _write_counter >= 100 starts a write-triggered eviction
WriteEvictionThreshold == 100

Texts == {<<"A">>, <<"a", "b">>, <<"!">>, <<"b", "b", "b">>}
Formats == {"mp3", "opus"}
RequestVoices == {"v1"}

\* _convert_audio_format: the bytes it can return ({} for None); ffmpeg_ok
\* says whether the ffmpeg run succeeds
_convert_audio_format(audio_data, target_format, ffmpeg_ok) ==
    IF target_format \notin {"opus", "wav", "ogg"} THEN {}
    ELSE IF ffmpeg_ok THEN {[src |-> audio_data.src, fmt |-> target_format]}
    ELSE {}

\* the content_type table of audio_speech
content_type(response_format) ==
    IF response_format \in {"opus", "ogg"} THEN "audio/ogg"
    ELSE IF response_format = "wav" THEN "audio/wav"
    ELSE "audio/mpeg"

\* record_miss is called by server.py and not defined in metadata.py; it is
\* documented as an observability-only counter
record_miss(cat) == cat

\* the mutated hit key: always the fingerprint of the request
HitKey_OfRequest(result) == result.normalized

\* result.get("matched", result.get("normalized", normalize(text)))
HitKey(result) ==
    IF "matched" \in DOMAIN result THEN result.matched ELSE result.normalized

NoResult == [match_type |-> "none"]

\* _store.lookup(text, voice): the results it can give, NoResult for None
lookup(text, voice) ==
    LET found == find(hot, text, voice, settings.fuzzy_enabled, FuzzyThreshold)
    IN  IF found = {} THEN {NoResult} ELSE found

StoredKey(r) == <<r.text, r.voice, r.fmt>>

\* body.get(key, default) of the JSON body of a request
BodyGet(body, key, default) == IF key \in DOMAIN body THEN body[key] ELSE default

\* the mutated check: no text is taken to be empty
EmptyInput_Never(text) == FALSE

\* if not text
EmptyInput(text) == text = <<>>

\* the mutated handler: the FileNotFoundError of read_bytes ends the request
FileNotFound_Raised(r, result) ==
    [r EXCEPT !.pc = "error", !.path = {result.audio_path},
              !.match_type = result.match_type]

\* except FileNotFoundError: pass.  The request goes on to the gateway as
\* after a miss; path and match_type keep what the lookup returned
FileNotFound(r, result) ==
    [r EXCEPT !.path = {result.audio_path}, !.match_type = result.match_type]

\* the mutated fallback: the response keeps the format that was asked for
FormatServed_Requested(converted, fallback_format, requested) == requested

\* if converted: ... else: response_format = cached_format on the hit path,
\* response_format = "mp3" on the miss path
FormatServed(converted, fallback_format, requested) ==
    IF converted = {} THEN fallback_format ELSE requested

\* the mutated check: no text is too long to be cached
TooLong_Never(text) == FALSE

\* len(text) > _settings.cache.eviction.max_text_length
TooLong(text) == Len(text) > MaxTextLength

\* the response of a request and what the request did
Respond(r, status, source, audio_data, response_format, before) ==
    last' = [op |-> "speech", id |-> r.id, text |-> r.text, voice |-> r.voice,
             fmt |-> r.fmt, status |-> status, source |-> source,
             body |-> audio_data, media_type |-> content_type(response_format),
             path |-> r.path, match_type |-> r.match_type,
             normalized |-> r.normalized, hitkey |-> r.hitkey,
             expect |-> r.expect, before |-> before,
             transcode |-> r.transcode, cached |-> r.cached, wrote |-> r.wrote,
             pc |-> r.pc]

\* audio_speech up to its first await after the lookup
ReqBegin(text, voice, fmt) ==
    /\ started' = started + 1
    /\ \E normalized \in {normalize(text, DefaultNormalizeConfig)} :
       LET r == [id |-> started + 1, text |-> text, voice |-> voice, fmt |-> fmt,
                 pc |-> "synth", audio |-> {}, response_format |-> fmt, path |-> {},
                 match_type |-> "none", normalized |-> normalized, hitkey |-> <<>>,
                 expect |-> IF <<text, voice, fmt>> \in DOMAIN stored
                            THEN {stored[<<text, voice, fmt>>]} ELSE {},
                 transcode |-> "none", cached |-> {}, wrote |-> {}]
       IN  IF EmptyInput(text)
           THEN /\ Respond(r, 400, "none", {}, fmt, catalog)
                /\ reqs' = reqs
           ELSE \E result \in lookup(text, voice), ffmpeg_ok \in BOOLEAN :
                   /\ IF result.match_type # "none" /\ Exists(files, result.audio_path)
                      THEN LET audio_path == result.audio_path
                               cached_format == audio_path.ext
                               convert == cached_format # fmt /\ fmt # "mp3"
                               converted == _convert_audio_format(files[audio_path],
                                                                  fmt, ffmpeg_ok)
                           IN  reqs' = reqs \cup
                                 {[r EXCEPT
                                     !.pc = "record_hit",
                                     !.audio = IF convert /\ converted # {}
                                               THEN converted ELSE {files[audio_path]},
                                     !.response_format =
                                         IF convert
                                         THEN FormatServed(converted, cached_format, fmt)
                                         ELSE fmt,
                                     !.transcode =
                                         IF ~convert THEN "none"
                                         ELSE IF converted = {} THEN "failed" ELSE "done",
                                     !.cached = {files[audio_path]},
                                     !.path = {audio_path},
                                     !.match_type = result.match_type,
                                     !.hitkey = HitKey(result)]}
                      ELSE IF result.match_type # "none"
                      THEN reqs' = reqs \cup {FileNotFound(r, result)}
                      ELSE reqs' = reqs \cup {r}
                   /\ UNCHANGED last
    /\ UNCHANGED <<catalog, nextId, hot, files, now, calls, evictor, varietyVars, schema, gatewayVars, settings,
                   write_counter, stored>>

\* a request arrives while fewer than MaxInflight are suspended
ReqStart(text, voice, fmt) ==
    /\ started < MaxRequests
    /\ Cardinality(reqs) < MaxInflight
    /\ ReqBegin(text, voice, fmt)

\* the hit path after the await: record_hit has run, the response is sent
ReqRecordHit(r) ==
    /\ r.pc = "record_hit"
    /\ catalog' = record_hit(catalog, now, r.hitkey, r.voice, {})
    /\ reqs' = reqs \ {r}
    /\ \E audio_data \in r.audio :
          Respond(r, 200, "cache", {audio_data}, r.response_format, catalog)
    /\ UNCHANGED <<nextId, hot, files, now, started, calls, evictor, varietyVars, schema, gatewayVars, settings,
                   write_counter, stored>>

\* _write_counter += 1 and the eviction it starts at the threshold; an
\* exception of the run is caught and what the run did before it stays
AfterWrite(cat, nid, h, fs, history) ==
    \E candidates \in IF write_counter + 1 >= WriteEvictionThreshold
                      THEN get_eviction_candidates(cat, now, evictor.max_entries,
                                                   evictor.min_age_days)
                      ELSE {<<>>} :
       LET run == CacheEvictor_run(cat, h, fs, candidates, evictor.hot_cache)
           evicts == write_counter + 1 >= WriteEvictionThreshold
       IN  /\ write_counter' = IF evicts THEN 0 ELSE write_counter + 1
           /\ catalog' = run.catalog
           /\ nextId' = nid
           /\ hot' = run.hot
           /\ files' = run.files
           /\ stored' = IF evicts THEN << >> ELSE history

\* the miss path after the provider has answered: conversion, the store and
\* add_entry
ReqSynthDone(r) ==
    /\ r.pc = "synth"
    /\ calls' = calls + 1
    /\ \E ffmpeg_ok \in BOOLEAN :
       LET mp3 == [src |-> calls + 1, fmt |-> "mp3"]
           converted == IF r.fmt # "mp3"
                        THEN _convert_audio_format(mp3, r.fmt, ffmpeg_ok) ELSE {}
           audio_data == IF converted # {} THEN CHOOSE a \in converted : TRUE ELSE mp3
           provider_format == IF converted # {} THEN r.fmt ELSE "mp3"
           response_format == IF r.fmt # "mp3"
                              THEN FormatServed(converted, "mp3", r.fmt) ELSE r.fmt
           rt == [r EXCEPT !.transcode = IF r.fmt = "mp3" THEN "none"
                                         ELSE IF converted = {} THEN "failed"
                                         ELSE "done"]
       IN  IF TooLong(r.text)
           THEN /\ catalog' = record_miss(catalog)
                /\ reqs' = reqs \ {r}
                /\ Respond(rt, 200, "provider", {audio_data}, response_format, catalog)
                /\ UNCHANGED <<nextId, hot, files, write_counter, stored>>
           ELSE LET st == store(record_miss(catalog), nextId, hot, files, now,
                                r.normalized, r.voice, audio_data, provider_format,
                                {}, FALSE, 1)
                    added == add_entry(st.catalog, st.nextId, now, r.normalized,
                                       r.voice, st.path, provider_format, FALSE, 1)
                    history == [k \in DOMAIN stored \cup {StoredKey(r)} |->
                                   IF k = StoredKey(r) THEN audio_data ELSE stored[k]]
                IN  IF added.error = "none"
                    THEN /\ AfterWrite(added.catalog, added.nextId, st.hot, st.files,
                                       history)
                         /\ reqs' = reqs \ {r}
                         /\ Respond([rt EXCEPT !.wrote = {[path |-> st.path,
                                                            data |-> audio_data]}],
                                    200, "provider", {audio_data}, response_format,
                                    catalog)
                    ELSE /\ catalog' = added.catalog
                         /\ nextId' = added.nextId
                         /\ hot' = st.hot
                         /\ files' = st.files
                         /\ stored' = history
                         /\ reqs' = (reqs \ {r}) \cup
                               {[rt EXCEPT !.pc = "duplicate", !.audio = {audio_data},
                                           !.response_format = response_format,
                                           !.wrote = {[path |-> st.path,
                                                       data |-> audio_data]}]}
                         /\ UNCHANGED <<write_counter, last>>
    /\ UNCHANGED <<now, started, evictor, varietyVars, schema, gatewayVars, settings>>

\* the miss path whose add_entry raised IntegrityError, after its await
ReqDuplicate(r) ==
    /\ r.pc = "duplicate"
    /\ AfterWrite(record_hit(catalog, now, r.normalized, r.voice, {}), nextId, hot,
                  files, stored)
    /\ reqs' = reqs \ {r}
    /\ \E audio_data \in r.audio :
          Respond(r, 200, "provider", {audio_data}, r.response_format, catalog)
    /\ UNCHANGED <<now, started, calls, evictor, varietyVars, schema, gatewayVars, settings>>

\* the status codes of the HTTPExceptions the FallbackOrchestrator raises:
\* 503 after the last provider, or what _to_http_exception makes of an
\* error that is not retryable
GatewayRaises ==
    {AllProvidersFailed(<<>>).status_code}
        \cup {_to_http_exception(exc, _extract_status_code(exc)) :
                 exc \in {e \in {HTTPStatusError(400), Plain("RuntimeError")} :
                             ~_should_fallback(_extract_status_code(e), e)}}

\* gateway.synthesize raises an HTTPException, which audio_speech raises
\* again: the request is answered with its status.  The orchestrator raises
\* nothing else, so the 502 of the second except clause is not reached
ReqSynthFail(r, status) ==
    /\ r.pc = "synth"
    /\ calls' = calls + 1
    /\ reqs' = reqs \ {r}
    /\ Respond(r, status, "none", {}, r.fmt, catalog)
    /\ UNCHANGED <<catalog, nextId, hot, files, now, started, evictor, varietyVars, schema, gatewayVars, settings,
                   write_counter, stored>>

\* DELETE /v1/cache
cache_clear ==
    /\ catalog' = {}
    /\ hot' = hot_clear
    /\ files' = Unlink(files, delete_all_paths(catalog))
    /\ stored' = << >>
    /\ last' = [op |-> "clear", before |-> catalog]
    /\ UNCHANGED <<nextId, now, reqs, started, calls, evictor, varietyVars, schema, gatewayVars, settings, write_counter>>

\* _periodic_eviction: the sleep is over
PeriodicEviction == EvictorRun

\* a catalog left by an earlier run: two versions of one key, written by
\* store(..., version_num) and add_entry(..., version_num)
SeedRows ==
    {Row(v, <<"a">>, "v1", _make_filename(<<"a">>, "v1", "mp3", v), "mp3", FALSE, v, 0) :
        v \in Versions}

\* lifespan has run: the HotCache is loaded from the catalog, every row has
\* its file, the evictor is built without a hot_cache
Init ==
    /\ catalog \in {{}, SeedRows}
    /\ nextId = Cardinality(catalog) + 1
    /\ hot = load_entries(hot_clear, catalog)
    /\ files = [q \in {r.audio_path : r \in catalog} |-> [src |-> 0, fmt |-> q.ext]]
    /\ now = 0 /\ reqs = {} /\ started = 0 /\ calls = 0 /\ last = NoOp
    /\ evictor = DefaultEvictor
    /\ settings \in [fuzzy_enabled : BOOLEAN]
    /\ write_counter = 0 /\ stored = << >>
    /\ GatewayIdle /\ gateway = DefaultGateway /\ VarietyIdle /\ SchemaOpened

\* the request bodies a client sends: every text as mp3, one text also as
\* opus, an empty input and a body without input
RequestKinds ==
    {[input |-> text, voice |-> voice, response_format |-> "mp3"] :
        text \in Texts, voice \in RequestVoices}
        \cup {[input |-> <<"A">>, voice |-> voice, response_format |-> "opus"] :
                 voice \in RequestVoices}
        \cup {[input |-> <<>>, voice |-> "v1"], [voice |-> "v1"]}

\* audio_speech reads the body
audio_speech(body) ==
    ReqStart(BodyGet(body, "input", <<>>), BodyGet(body, "voice", "Decent_Boy"),
             BodyGet(body, "response_format", "mp3"))

Serve(kinds) ==
    \/ \E body \in kinds : audio_speech(body)
    \/ \E r \in reqs : ReqRecordHit(r)
    \/ \E r \in reqs : ReqSynthDone(r)
    \/ \E r \in reqs : ReqDuplicate(r)
    \/ \E r \in reqs, status \in GatewayRaises : ReqSynthFail(r, status)
    \/ cache_clear
    \/ PeriodicEviction
    \/ Tick

Next == Serve(RequestKinds)

Spec == Init /\ [][Next]_vars

\* the server with fuzzy matching enabled, asked for two texts whose
\* fingerprints are within the threshold of each other
FuzzyKinds ==
    {[input |-> text, voice |-> "v1", response_format |-> "mp3"] :
        text \in {<<"A">>, <<"a", "b">>}}
FuzzyInit == Init /\ settings.fuzzy_enabled
FuzzyNext == Serve(FuzzyKinds)
SpecFuzzy == FuzzyInit /\ [][FuzzyNext]_vars

RowsOfKey(cat, fp, voice) == {r \in cat : r.text_normalized = fp /\ r.voice_id = voice}

\* C2 as stated: once the miss path has stored audio for a non-empty text of
\* at most max_text_length characters, every later request for the same
\* (text, voice, format) with no eviction or clear in between is answered
\* from the cache with the stored bytes, without a provider call.
C2_StoredIsServed ==
    /\ \A r \in reqs :
          (r.expect # {} /\ Len(r.text) \in 1..MaxTextLength) => r.pc = "record_hit"
    /\ (/\ last.op = "speech" /\ last.expect # {}
        /\ Len(last.text) \in 1..MaxTextLength)
       => /\ last.status = 200
          /\ last.source = "cache"
          /\ last.body = last.expect

\* C3 as stated: a request served from the cache raises hit_count by one on
\* exactly one row, the row whose artifact was served, and leaves every
\* other row, other versions of the key included, as it was.
C3_OneRowPerHit ==
    (last.op = "speech" /\ last.source = "cache") =>
        \E r \in last.before :
           /\ last.path = {r.audio_path}
           /\ Cardinality(catalog) = Cardinality(last.before)
           /\ \E r2 \in catalog : r2.id = r.id /\ r2.hit_count = r.hit_count + 1
           /\ \A x \in last.before \ {r} : x \in catalog

\* C4: a request served by a fuzzy match records the hit on the rows of the
\* matched fingerprint, the one the served artifact belongs to, and leaves
\* the rows of every other fingerprint, the request's own included, as
\* they were.
C4_FuzzyHitOnMatched ==
    (last.op = "speech" /\ last.source = "cache" /\ last.match_type = "fuzzy") =>
        /\ last.hitkey # last.normalized
        /\ \A path \in last.path : path.fp = last.hitkey
        /\ \A r \in last.before :
              IF r \in RowsOfKey(last.before, last.hitkey, last.voice)
              THEN \E r2 \in catalog : r2.id = r.id /\ r2.hit_count = r.hit_count + 1
              ELSE r \in catalog

\* a fuzzy hit whose matched fingerprint has a row
C4_Witness ==
    /\ last.op = "speech" /\ last.source = "cache" /\ last.match_type = "fuzzy"
    /\ RowsOfKey(last.before, last.hitkey, last.voice) # {}
    /\ last.hitkey # last.normalized

\* C7 as stated: after every completed operation the HotIndex holds, for
\* every (voice_id, fingerprint), exactly the audio_path values of the
\* catalog rows with that key.
C7_HotMirrorsCatalog ==
    \A key \in DOMAIN hot \cup {<<r.voice_id, r.text_normalized>> : r \in catalog} :
       Range(get_paths(hot, key[2], key[1]))
           = {r.audio_path : r \in RowsOfKey(catalog, key[2], key[1])}

-----------------------------------------------------------------------------
(* The request pipeline: empty input and the artifact that is missing.     *)

\* C19: a request whose input is empty or absent is answered at once with
\* status 400 and an empty body; it is never suspended at a provider call or
\* at record_hit, and catalog, HotCache, files, provider calls and the
\* write counter are as they were.
C19_EmptyRejected ==
    [][started' = started + 1 =>
          /\ \A r \in reqs' : r.id = started' => r.text # <<>>
          /\ (last'.op = "speech" /\ last'.id = started' /\ last'.text = <<>>) =>
                /\ last'.status = 400 /\ last'.body = {}
                /\ last'.match_type = "none" /\ last'.path = {}
                /\ UNCHANGED <<catalog, nextId, hot, files, calls, reqs,
                               write_counter, stored>>]_vars

\* an empty input was rejected while the cache held an entry
C19_Witness ==
    /\ last.op = "speech" /\ last.text = <<>> /\ last.status = 400
    /\ last.body = {} /\ catalog # {} /\ calls > 0

\* C20: a request whose lookup hit an artifact that is not on disk waits for
\* the provider like a miss; unless the provider chain fails, its response
\* has status 200 and carries audio synthesized for it by a provider call.
C20_MissingArtifactIsMiss ==
    /\ \A r \in reqs :
          (r.match_type # "none" /\ r.pc # "record_hit") =>
              r.pc \in {"synth", "duplicate"}
    /\ (last.op = "speech" /\ last.match_type # "none" /\ last.source # "cache") =>
          \/ /\ last.status = 200 /\ last.source = "provider"
             /\ \E audio_data \in last.body : audio_data.src \in 1..calls
          \/ last.status \in GatewayRaises /\ last.source = "none" /\ last.body = {}

\* a lookup hit an artifact that was gone and the response carries audio
\* the provider made for it
C20_Witness ==
    /\ last.op = "speech" /\ last.match_type = "exact" /\ last.source = "provider"
    /\ last.status = 200 /\ last.path # {}
    /\ \E audio_data \in last.body : audio_data.src = calls

-----------------------------------------------------------------------------
(* The FallbackOrchestrator on its own: synthesize calls that overlap at   *)
(* their provider calls, providers that answer or raise, and the clock.    *)

MaxWalks == 3
MaxOpenWalks == 2
MaxClock == 2
MaxThreshold == 2
MaxWindow == 1
MaxCooldown == 2

\* status codes a provider answers with
StatusCodes == {400, 404, 429, 500}

\* what a provider call raises: an HTTP error, a network-level error, an
\* HTTPException, or an error of another class such as RuntimeError
Raises ==
    {HTTPStatusError(code) : code \in StatusCodes}
        \cup {Plain(class) : class \in NetworkErrors \cup {"RuntimeError"}}
        \cup {HTTPException(503)}

\* one error of each kind
SomeRaises ==
    {HTTPStatusError(400), HTTPStatusError(429), Plain("TimeoutException"),
     Plain("RuntimeError")}

\* how a synthesize call ended: the bytes it returned or the status code of
\* the HTTPException it raised
Ended(w, outcome, audio, status_code) ==
    last' = [op |-> "synthesize", id |-> w.id, outcome |-> outcome, audio |-> audio,
             status_code |-> status_code, called |-> w.called,
             skipped |-> w.skipped, errors |-> w.errors, probed |-> w.probed]

\* the loop of synthesize has stopped: at a provider call, or after the last
\* provider with HTTPException(status_code=503)
Suspend(res, others) ==
    /\ circuit' = res.circuit
    /\ IF res.walk.pos > Len(FallbackChain)
       THEN /\ walks' = others
            /\ Ended(res.walk, "raised", {},
                     AllProvidersFailed(res.walk.errors).status_code)
       ELSE /\ walks' = others \cup {res.walk}
            /\ UNCHANGED last

\* synthesize is called and runs up to its first provider call
Synthesize(concurrent) ==
    /\ walked < MaxWalks
    /\ Cardinality(walks) < concurrent
    /\ walked' = walked + 1
    /\ Suspend(walk_from(circuit, NewWalk(walked + 1), 1, clock, gateway), walks)
    /\ UNCHANGED <<catalog, nextId, hot, files, now, reqs, started, calls, evictor, varietyVars, schema,
                   settings, write_counter, stored, clock, gateway>>

\* the provider call of w returns bytes
ProviderReturns(w) ==
    /\ circuit' = [circuit EXCEPT ![FallbackChain[w.pos]] = _clear_failures(@)]
    /\ walks' = walks \ {w}
    /\ Ended(w, "returned", {[provider |-> _call_provider(FallbackChain[w.pos])]}, 0)
    /\ UNCHANGED <<catalog, nextId, hot, files, now, reqs, started, calls, evictor, varietyVars, schema,
                   settings, write_counter, stored, clock, gateway, walked>>

\* the circuit states after the except clause has classified exc
Counted(circ, name, exc, t, cfg) ==
    IF _count_failure(_extract_status_code(exc), exc)
    THEN [circ EXCEPT ![name] = _record_failure(@, t, cfg)]
    ELSE circ

\* the provider call of w raises exc
ProviderRaises(w, exc) ==
    /\ IF _should_fallback(_extract_status_code(exc), exc)
       THEN Suspend(walk_from(Counted(circuit, FallbackChain[w.pos], exc, clock, gateway),
                              [w EXCEPT !.errors =
                                  Append(@, [provider |-> FallbackChain[w.pos],
                                             exc |-> exc])],
                              NextProvider(w.pos), clock, gateway),
                    walks \ {w})
       ELSE /\ circuit' = Counted(circuit, FallbackChain[w.pos], exc, clock, gateway)
            /\ walks' = walks \ {w}
            /\ Ended([w EXCEPT !.errors = Append(@, [provider |-> FallbackChain[w.pos],
                                                     exc |-> exc])],
                     "raised", {},
                     _to_http_exception(exc, _extract_status_code(exc)))
    /\ UNCHANGED <<catalog, nextId, hot, files, now, reqs, started, calls, evictor, varietyVars, schema,
                   settings, write_counter, stored, clock, gateway, walked>>

\* the monotonic clock advances
ClockTick ==
    /\ clock < MaxClock
    /\ clock' = clock + 1
    /\ UNCHANGED <<catalog, nextId, hot, files, now, reqs, started, calls, last,
                   evictor, varietyVars, schema, settings, write_counter, stored, circuit, walks, gateway,
                   walked>>

GatewayInit ==
    /\ catalog = {} /\ nextId = 1 /\ hot = << >> /\ files = << >>
    /\ now = 0 /\ reqs = {} /\ started = 0 /\ calls = 0
    /\ last = NoOp /\ evictor = DefaultEvictor
    /\ settings = DefaultSettings /\ write_counter = 0 /\ stored = << >>
    /\ GatewayIdle /\ VarietyIdle /\ SchemaOpened
    /\ gateway \in [failure_threshold : 1..MaxThreshold,
                    failure_window_seconds : 0..MaxWindow,
                    cooldown_seconds : 1..MaxCooldown]

Orchestrate(raises, concurrent) ==
    \/ Synthesize(concurrent)
    \/ \E w \in walks : ProviderReturns(w)
    \/ \E w \in walks, exc \in raises : ProviderRaises(w, exc)
    \/ ClockTick

\* overlapping synthesize calls, one error of each kind
GatewayNext == Orchestrate(SomeRaises, MaxOpenWalks)

SpecGateway == GatewayInit /\ [][GatewayNext]_vars

\* one synthesize call at a time, every error
ClassifyNext == Orchestrate(Raises, 1)

SpecClassify == GatewayInit /\ [][ClassifyNext]_vars

\* the position of a provider in the chain
Position(name) == IndexOf(FallbackChain, name)

\* providers in the order of the chain, none twice
InChainOrder(seq) ==
    \A i, j \in 1..Len(seq) : i < j => Position(seq[i]) < Position(seq[j])

\* this step, the provider call of w raised exc: errors.append has run
RaisedIn(w, exc) ==
    LET errors == Append(w.errors, [provider |-> FallbackChain[w.pos], exc |-> exc])
    IN  \/ \E w2 \in walks' : w2.id = w.id /\ w2.errors = errors
        \/ /\ \A w2 \in walks' : w2.id # w.id
           /\ last'.op = "synthesize" /\ last'.id = w.id /\ last'.errors = errors

\* this step, the call w went on after its provider: it called the next
\* provider whose circuit is not open, or it skipped every later provider
\* and raised 503
WentOn(w) ==
    \/ \E w2 \in walks' :
          /\ w2.id = w.id /\ w2.pos > w.pos
          /\ w2.called = Append(w.called, FallbackChain[w2.pos])
          /\ Len(w2.skipped) - Len(w.skipped) = w2.pos - w.pos - 1
    \/ /\ \A w2 \in walks' : w2.id # w.id
       /\ last'.op = "synthesize" /\ last'.id = w.id
       /\ last'.outcome = "raised" /\ last'.status_code = 503
       /\ last'.called = w.called
       /\ Len(last'.skipped) - Len(w.skipped) = Len(FallbackChain) - w.pos

\* this step, the call w ended with an HTTPException and called nobody else
Aborted(w) ==
    /\ \A w2 \in walks' : w2.id # w.id
    /\ last'.op = "synthesize" /\ last'.id = w.id /\ last'.outcome = "raised"
    /\ last'.called = w.called /\ last'.skipped = w.skipped

StatusOf(exc) == exc.status_code \cup exc.response
Terminal4xx(exc) == \E code \in StatusOf(exc) : code \in 400..499 /\ code # 429
Transient(exc) ==
    \/ \E code \in StatusOf(exc) : code = 429 \/ code >= 500
    \/ /\ StatusOf(exc) = {}
       /\ exc.class \in {"TimeoutException", "ConnectError", "asyncio.TimeoutError"}
Unknown(exc) ==
    /\ StatusOf(exc) = {}
    /\ exc.class \notin {"TimeoutException", "ConnectError", "asyncio.TimeoutError"}

\* this step appended exactly one timestamp, the current time, to the
\* failure queue of the provider, behind what was left of the queue
OneFailureAppended(name) ==
    \E k \in 0..Len(circuit[name].failures) :
       circuit'[name].failures =
           Append(SubSeq(circuit[name].failures, k + 1, Len(circuit[name].failures)),
                  clock)

\* the client whose bytes a provider of the chain returns
ClientOf(name) == IF name = "litellm" THEN "litellm_router" ELSE "edge_provider"

\* C11: a synthesize call invokes providers in the order of the chain and
\* none twice; when it returns, it returns the bytes of the provider it
\* called last, and every provider it called before that one raised.
C11_FirstSuccessReturned ==
    /\ \A w \in walks :
          /\ InChainOrder(w.called)
          /\ w.called # <<>> /\ w.called[Len(w.called)] = FallbackChain[w.pos]
          /\ Len(w.errors) = Len(w.called) - 1
    /\ last.op = "synthesize" =>
          /\ InChainOrder(last.called)
          /\ \A i \in 1..Len(last.errors) : last.errors[i].provider = last.called[i]
          /\ last.outcome = "returned" =>
                /\ last.called # <<>>
                /\ Len(last.errors) = Len(last.called) - 1
                /\ last.audio =
                      {[provider |-> ClientOf(last.called[Len(last.called)])]}

\* the primary timed out, the backup answered: each called once, the bytes
\* are the backup's
C11_Witness ==
    /\ last.op = "synthesize" /\ last.outcome = "returned"
    /\ last.called = FallbackChain
    /\ last.errors = <<[provider |-> "litellm", exc |-> Plain("TimeoutException")]>>
    /\ last.audio = {[provider |-> "edge_provider"]}

\* C12: when a provider call raises an error with a 4xx status other than
\* 429, the synthesize call ends there with an HTTPException of that status,
\* no later provider is called, and no circuit state changes.
C12_TerminalAborts ==
    [][\A w \in walks, exc \in Raises :
          (RaisedIn(w, exc) /\ Terminal4xx(exc)) =>
              /\ Aborted(w)
              /\ last'.status_code \in StatusOf(exc)
              /\ circuit' = circuit]_vars

\* a 400 from the primary ended a call while the primary had a failure on
\* record, and the backup was not called
C12_Witness ==
    /\ last.op = "synthesize" /\ last.outcome = "raised" /\ last.status_code = 400
    /\ last.called = <<"litellm">>
    /\ last.errors = <<[provider |-> "litellm", exc |-> HTTPStatusError(400)]>>
    /\ circuit["litellm"].failures # <<>>

\* C13: when a provider call raises 429, a status of 500 or more, a timeout
\* or a connection error, exactly one timestamp joins that provider's
\* failure queue and the call goes on with the next provider of the chain.
C13_TransientCounted ==
    [][\A w \in walks, exc \in Raises :
          (RaisedIn(w, exc) /\ Transient(exc)) =>
              /\ OneFailureAppended(FallbackChain[w.pos])
              /\ WentOn(w)]_vars

\* a call is at the backup after a 429 of the primary was counted
C13_Witness ==
    \E w \in walks :
       /\ w.called = FallbackChain
       /\ w.errors = <<[provider |-> "litellm", exc |-> HTTPStatusError(429)]>>
       /\ circuit["litellm"].failures = <<clock>>

\* C14 as stated: when a provider call raises an error without a status
\* code that is not a network-level error, one failure is recorded for the
\* provider and the call goes on with the next provider.
C14_UnknownIsRetryable ==
    [][\A w \in walks, exc \in Raises :
          (RaisedIn(w, exc) /\ Unknown(exc)) =>
              /\ OneFailureAppended(FallbackChain[w.pos])
              /\ WentOn(w)]_vars

\* every provider of the chain was skipped by the call or raised a
\* retryable error in it
Exhausted(rec) ==
    \A i \in 1..Len(FallbackChain) :
       \/ \E k \in 1..Len(rec.skipped) : rec.skipped[k] = FallbackChain[i]
       \/ \E k \in 1..Len(rec.errors) :
             rec.errors[k].provider = FallbackChain[i] /\ Transient(rec.errors[k].exc)

\* C15: a synthesize call in which every provider was skipped for its open
\* circuit or raised a retryable error ends with HTTPException 503; when
\* every provider was skipped, none was called.
C15_AllUnavailable ==
    /\ \A w \in walks : ~Exhausted(w)
    /\ (last.op = "synthesize" /\ Exhausted(last)) =>
          /\ last.outcome = "raised" /\ last.status_code = 503
          /\ last.skipped = FallbackChain => last.called = <<>>

\* every circuit was open: 503 without a provider call
C15_Witness ==
    /\ last.op = "synthesize" /\ last.outcome = "raised" /\ last.status_code = 503
    /\ last.skipped = FallbackChain /\ last.called = <<>>

\* the failure queue of the provider holds failure_threshold failures that
\* lie within failure_window_seconds, and cooldown_seconds have not elapsed
\* since the last of them
Tripped(name) ==
    LET failures == circuit[name].failures
        n == Len(failures)
    IN  /\ n >= gateway.failure_threshold
        /\ failures[n] - failures[n - gateway.failure_threshold + 1]
              <= gateway.failure_window_seconds
        /\ clock < failures[n] + gateway.cooldown_seconds

\* the deadline of the provider's circuit has passed and is still set
Expired(name) ==
    circuit[name].open_until # 0 /\ circuit[name].open_until <= clock

\* this step, a synthesize call invoked the provider
Invoked(name) ==
    \E w2 \in walks' :
       /\ FallbackChain[w2.pos] = name
       /\ \A w \in walks : w.id = w2.id => w.pos # w2.pos

\* this step, a synthesize call skipped the provider
Skipped(name) ==
    \/ \E w2 \in walks' :
          /\ \E k \in 1..Len(w2.skipped) : w2.skipped[k] = name
          /\ \A w \in walks : w.id = w2.id =>
                \A k \in 1..Len(w.skipped) : w.skipped[k] # name
    \/ /\ last' # last /\ last'.op = "synthesize"
       /\ \E k \in 1..Len(last'.skipped) : last'.skipped[k] = name
       /\ \A w \in walks : w.id = last'.id =>
             \A k \in 1..Len(w.skipped) : w.skipped[k] # name

C17_ClosesAfterCooldown ==
    [][/\ \A name \in Range(FallbackChain) :
             Expired(name) =>
                 /\ ~Skipped(name)
                 /\ (walked' # walked /\ name = FallbackChain[1]) => Invoked(name)
       /\ \A w \in walks :
             (/\ FallbackChain[w.pos] \in w.probed
              /\ \A w2 \in walks' : w2.id # w.id
              /\ last'.op = "synthesize" /\ last'.id = w.id
              /\ last'.outcome = "returned")
             => circuit'[FallbackChain[w.pos]] = NewCircuitState]_vars

\* a call invoked the primary after its deadline had passed and returned
\* its bytes; the primary's bookkeeping is cleared
C17_Witness ==
    /\ last.op = "synthesize" /\ last.outcome = "returned"
    /\ last.called = <<"litellm">> /\ "litellm" \in last.probed
    /\ circuit["litellm"] = NewCircuitState

\* C18 as stated: when the only call in flight invoked a provider after the
\* deadline of its circuit had passed and that call raises a counted
\* failure, the circuit is open again.
C18_HalfOpenReopens ==
    [][\A w \in walks, exc \in Raises :
          (/\ walks = {w}
           /\ FallbackChain[w.pos] \in w.probed
           /\ RaisedIn(w, exc) /\ Transient(exc))
          => circuit'[FallbackChain[w.pos]].open_until > clock]_vars

-----------------------------------------------------------------------------
(* The request pipeline: conversion failures, long texts, duplicate        *)
(* inserts and misses that overlap.                                        *)

\* C21: a request whose conversion failed is answered with status 200.  On a
\* hit the body is the bytes read from the cached artifact and the media
\* type is that of the cached format; on a miss the body is the provider's
\* mp3, the media type is audio/mpeg and what the store wrote is that mp3
\* under a .mp3 name.
C21_TranscodeFailureServes ==
    (last.op = "speech" /\ last.transcode = "failed") =>
        /\ last.status = 200
        /\ last.source \in {"cache", "provider"}
        /\ last.source = "cache" =>
              /\ last.body = last.cached /\ last.body # {}
              /\ \E path \in last.path :
                    last.media_type = content_type(path.ext)
        /\ last.source = "provider" =>
              /\ \E audio_data \in last.body :
                    audio_data.fmt = "mp3" /\ audio_data.src \in 1..calls
              /\ last.media_type = "audio/mpeg"
              /\ Len(last.text) <= MaxTextLength => last.wrote # {}
              /\ \A w \in last.wrote :
                    w.path.ext = "mp3" /\ {w.data} = last.body

\* a conversion failed on a hit
C21_Witness ==
    /\ last.op = "speech" /\ last.transcode = "failed" /\ last.source = "cache"
    /\ last.fmt = "opus" /\ last.media_type = "audio/mpeg" /\ last.status = 200

RowsOfTriple(cat, fp, voice) == {x \in RowsOfKey(cat, fp, voice) : x.version_num = 1}

\* C23: when add_entry of the miss path raises IntegrityError the catalog is
\* left as it was, with exactly one row for the (fingerprint, voice,
\* version); the request waits for record_hit and is then answered with
\* status 200 and the audio it computed, the hit is recorded on the rows of
\* the key that exist, and the catalog holds the same rows, still at most
\* one for the triple.
C23_DuplicateIsHit ==
    [][/\ \A r \in reqs' \ reqs : r.pc = "duplicate" =>
             /\ catalog' = catalog
             /\ Cardinality(RowsOfTriple(catalog', r.normalized, r.voice)) = 1
             /\ \E audio_data \in r.audio : audio_data.src = calls'
       /\ \A r \in reqs \ reqs' : r.pc = "duplicate" =>
             /\ last'.op = "speech" /\ last'.id = r.id /\ last'.status = 200
             /\ last'.body = r.audio /\ last'.body # {}
             /\ {x.id : x \in catalog'} = {x.id : x \in catalog}
             /\ Cardinality(catalog') = Cardinality(catalog)
             /\ \A x \in RowsOfTriple(catalog, r.normalized, r.voice) :
                   \E y \in catalog' : y.id = x.id /\ y.hit_count = x.hit_count + 1
             /\ Cardinality(RowsOfTriple(catalog', r.normalized, r.voice)) <= 1
      ]_vars

\* a duplicate insert was answered and the hit is on the one row of the key
C23_Witness ==
    /\ last.op = "speech" /\ last.pc = "duplicate" /\ last.status = 200
    /\ \E x \in catalog :
          /\ RowsOfKey(catalog, last.normalized, last.voice) = {x}
          /\ x.hit_count = 1
    /\ \E audio_data \in last.body : audio_data.src = calls

\* C24: with variety_depth = 1, after a request for a cacheable text whose
\* lookup found nothing has come back from the provider, and with no clear
\* or eviction since it stored, the request is answered with status 200, the
\* provider has been called, the catalog holds exactly one row for its
\* (fingerprint, voice) and the HotCache exactly one path, however many
\* requests for the key overlapped.
C24_ConcurrentMissesDeduplicated ==
    (/\ last.op = "speech" /\ last.pc \in {"synth", "duplicate"}
     /\ last.match_type = "none" /\ last.status \notin GatewayRaises
     /\ Len(last.text) <= MaxTextLength
     /\ <<last.text, last.voice, last.fmt>> \in DOMAIN stored) =>
        /\ last.status = 200 /\ last.body # {}
        /\ calls >= 1
        /\ Cardinality(RowsOfKey(catalog, last.normalized, last.voice)) = 1
        /\ Len(get_paths(hot, last.normalized, last.voice)) = 1

\* two requests for one unseen key overlapped at the provider; both were
\* answered, the second after its insert was rejected
C24_Witness ==
    /\ last.op = "speech" /\ last.pc = "duplicate" /\ last.match_type = "none"
    /\ last.status = 200 /\ calls = 2 /\ reqs = {}
    /\ <<last.text, last.voice, last.fmt>> \in DOMAIN stored
    /\ Cardinality(RowsOfKey(catalog, last.normalized, last.voice)) = 1
    /\ Len(get_paths(hot, last.normalized, last.voice)) = 1
    /\ \E audio_data \in last.body : audio_data.src = 2

-----------------------------------------------------------------------------
(* The store on its own, as tests/test_cache.py builds it: a               *)
(* FuzzyCacheStorage with a metadata_db and a variety_depth, an evictor    *)
(* over the same catalog, and calls of store, lookup and run.              *)

MaxDepth == 2
MaxStores == 3

\* "3 a" and "45 a" differ only in the digits of their numeric tokens
StoreTexts == {<<"3", " ", "a">>, <<"4", "5", " ", "a">>, <<"a">>}
StoreVoices == {"v1", "v2"}

\* FuzzyCacheStorage.store(text, voice_id, audio_data, fmt, version_num) with
\* version_num one of versions ({} when the caller passes none)
StoreWith(text, voice, fmt, versions) ==
    /\ calls < MaxStores
    /\ calls' = calls + 1
    /\ \E normalized \in {normalize(text, DefaultNormalizeConfig)},
          vers \in versions :
          LET audio_data == [src |-> calls + 1, fmt |-> fmt]
              st == store(catalog, nextId, hot, files, now, normalized, voice,
                          audio_data, fmt, vers, TRUE, settings.variety_depth)
          IN  /\ catalog' = st.catalog
              /\ nextId' = st.nextId
              /\ hot' = st.hot
              /\ files' = st.files
              /\ last' = [op |-> "store", text |-> text, voice |-> voice,
                          normalized |-> normalized, vers |-> vers,
                          audio |-> audio_data, error |-> st.error,
                          path |-> st.path, version_num |-> st.version_num,
                          existing |-> get_version_count(catalog, normalized, voice),
                          listed |-> get_paths(hot, normalized, voice),
                          before |-> catalog]
    /\ UNCHANGED <<now, reqs, started, evictor, varietyVars, schema, gatewayVars, settings,
                   write_counter, stored>>

\* a store without version_num, or with an explicit one of 1..variety_depth
StoreCall(text, voice, fmt) ==
    StoreWith(text, voice, fmt, {{}} \cup {{v} : v \in 1..settings.variety_depth})

\* FuzzyCacheStorage.lookup(text, voice_id) and the bytes at the path found
LookupCall(text, voice) ==
    /\ \E result \in lookup(text, voice) :
          last' = [op |-> "lookup", text |-> text, voice |-> voice,
                   result |-> result,
                   audio |-> IF result.match_type # "none"
                                 /\ Exists(files, result.audio_path)
                             THEN {files[result.audio_path]} ELSE {},
                   after |-> IF last.op = "store" THEN last ELSE NoOp]
    /\ UNCHANGED <<catalog, nextId, hot, files, now, reqs, started, calls, evictor, varietyVars, schema,
                   gatewayVars, settings, write_counter, stored>>

StoreInit ==
    /\ catalog = {} /\ nextId = 1 /\ hot = hot_clear /\ files = << >>
    /\ now = 0 /\ reqs = {} /\ started = 0 /\ calls = 0 /\ last = NoOp
    /\ evictor \in [max_entries : {1}, min_age_days : {MinAgeDays},
                    hot_cache : {TRUE}]
    /\ settings \in [fuzzy_enabled : {FALSE}, variety_depth : 1..MaxDepth]
    /\ write_counter = 0 /\ stored = << >>
    /\ GatewayIdle /\ gateway = DefaultGateway /\ VarietyIdle /\ SchemaOpened

StoreNext ==
    \/ \E text \in StoreTexts, voice \in StoreVoices, fmt \in {"mp3"} :
          StoreCall(text, voice, fmt)
    \/ \E text \in StoreTexts, voice \in StoreVoices : LookupCall(text, voice)
    \/ EvictorRun

SpecStore == StoreInit /\ [][StoreNext]_vars

\* C25: every catalog row has version_num in 1..variety_depth and every
\* (fingerprint, voice) has at most variety_depth rows; a store without
\* version_num uses min(get_version_count + 1, variety_depth); such a store
\* for a key that has variety_depth rows ends in IntegrityError and leaves
\* the catalog as it was; a store that ends without error adds one row with
\* the version it chose.
C25_VersionsWithinDepth ==
    /\ \A r \in catalog :
          /\ r.version_num \in 1..settings.variety_depth
          /\ get_version_count(catalog, r.text_normalized, r.voice_id)
                <= settings.variety_depth
    /\ (last.op = "store" /\ last.vers = {}) =>
          /\ \/ last.version_num = last.existing + 1
                   /\ last.version_num <= settings.variety_depth
             \/ last.version_num = settings.variety_depth
                   /\ last.existing + 1 >= settings.variety_depth
          /\ last.existing >= settings.variety_depth =>
                last.error = "IntegrityError" /\ catalog = last.before
          /\ last.error = "none" =>
                \E r \in catalog \ last.before :
                   /\ catalog = last.before \cup {r}
                   /\ r.version_num = last.version_num
                   /\ r.text_normalized = last.normalized
                   /\ r.voice_id = last.voice

\* a store for a key that already has variety_depth = 2 rows was rejected
C25_Witness ==
    /\ last.op = "store" /\ last.vers = {} /\ settings.variety_depth = 2
    /\ last.existing = 2 /\ last.error = "IntegrityError"
    /\ get_version_count(catalog, last.normalized, last.voice) = 2

RECURSIVE DigitMask(_)
\* a text with every maximal run of digits replaced by one mark
DigitMask(s) ==
    IF s = <<>> THEN <<>>
    ELSE IF IsDigit(Head(s))
    THEN IF Len(s) > 1 /\ IsDigit(s[2])
         THEN DigitMask(Tail(s)) ELSE <<"digits">> \o DigitMask(Tail(s))
    ELSE <<Head(s)>> \o DigitMask(Tail(s))

\* C30: after a store of audio A for a text under a voice whose key was
\* empty, a lookup under that voice of another text that differs from it
\* only in the digits of its numeric tokens has the same fingerprint and
\* returns an exact match whose artifact holds A.
C30_NumberAgnosticHit ==
    (/\ last.op = "lookup" /\ last.after.op = "store"
     /\ last.after.error = "none" /\ last.after.listed = <<>>
     /\ last.after.voice = last.voice
     /\ last.after.text # last.text
     /\ DigitMask(last.after.text) = DigitMask(last.text)) =>
        /\ last.result.match_type = "exact"
        /\ last.result.normalized = last.after.normalized
        /\ last.result.audio_path = last.after.path
        /\ last.audio = {last.after.audio}

\* "3 a" was stored, "45 a" was looked up: the fingerprint of both is "# a"
C30_Witness ==
    /\ last.op = "lookup" /\ last.text = <<"4", "5", " ", "a">>
    /\ last.after.op = "store" /\ last.after.text = <<"3", " ", "a">>
    /\ last.after.voice = last.voice /\ last.after.error = "none"
    /\ last.after.listed = <<>>
    /\ last.after.normalized = <<"#", " ", "a">>
    /\ last.result.match_type = "exact" /\ last.audio = {last.after.audio}

-----------------------------------------------------------------------------
(* Background variety generation.  server.py holds no code for it; what    *)
(* is here follows step 7 of the request pipeline and the concurrency      *)
(* section of the specification, and tests/test_integration.py, which      *)
(* builds the store with a variety_depth, no evictor, and reads            *)
(* server._variety_in_flight.                                              *)

VarietyTexts == {<<"A">>, <<"a", "b">>}

\* the mutated check: the single-flight set is not consulted
ShouldSpawn_Unguarded(in_flight, key, existing, variety_depth) ==
    variety_depth > 1 /\ existing < variety_depth

\* step 7: fewer versions than variety_depth and the key not in flight
ShouldSpawn(in_flight, key, existing, variety_depth) ==
    /\ variety_depth > 1
    /\ existing < variety_depth
    /\ key \notin in_flight

\* insert-if-absent on the single-flight set and the task it starts, at the
\* end of request r over the catalog cat
Spawn(cat, r) ==
    LET key == <<r.normalized, r.voice>>
    IN  IF ShouldSpawn(variety_in_flight, key,
                       get_version_count(cat, r.normalized, r.voice),
                       settings.variety_depth)
        THEN /\ variety_in_flight' = variety_in_flight \cup {key}
             /\ tasks' = tasks \cup {[id |-> r.id, key |-> key]}
        ELSE UNCHANGED varietyVars

VarietyRespond(r, status, source, audio_data) ==
    last' = [op |-> "speech", id |-> r.id, text |-> r.text, voice |-> r.voice,
             normalized |-> r.normalized, status |-> status, source |-> source,
             body |-> audio_data,
             found_in_flight |-> <<r.normalized, r.voice>> \in variety_in_flight,
             existing |-> get_version_count(catalog, r.normalized, r.voice)]

\* audio_speech up to its first await
VarietyReqStart(text, voice) ==
    /\ started < MaxRequests
    /\ started' = started + 1
    /\ \E normalized \in {normalize(text, DefaultNormalizeConfig)},
          result \in lookup(text, voice) :
          LET r == [id |-> started + 1, text |-> text, voice |-> voice,
                    normalized |-> normalized, pc |-> "synth", audio |-> {}]
          IN  reqs' = reqs \cup
                 {IF result.match_type # "none" /\ Exists(files, result.audio_path)
                  THEN [r EXCEPT !.pc = "record_hit",
                                 !.audio = {files[result.audio_path]}]
                  ELSE r}
    /\ UNCHANGED <<catalog, nextId, hot, files, now, calls, last, evictor, varietyVars, schema,
                   gatewayVars, settings, write_counter, stored>>

\* the hit path after record_hit: the response, then step 7
VarietyReqHit(r) ==
    /\ r.pc = "record_hit"
    /\ catalog' = record_hit(catalog, now, r.normalized, r.voice, {})
    /\ reqs' = reqs \ {r}
    /\ VarietyRespond(r, 200, "cache", r.audio)
    /\ Spawn(catalog', r)
    /\ UNCHANGED <<nextId, hot, files, now, started, calls, evictor, gatewayVars, schema,
                   settings, write_counter, stored>>

\* the miss path after the provider has answered: store, add_entry (a
\* rejected insert counts as a hit), the response, then step 7
VarietyReqSynthDone(r) ==
    /\ r.pc = "synth"
    /\ calls' = calls + 1
    /\ LET audio_data == [src |-> calls + 1, fmt |-> "mp3"]
           st == store(catalog, nextId, hot, files, now, r.normalized, r.voice,
                       audio_data, "mp3", {}, FALSE, settings.variety_depth)
           added == add_entry(st.catalog, st.nextId, now, r.normalized, r.voice,
                              st.path, "mp3", FALSE, 1)
       IN  /\ catalog' = IF added.error = "none" THEN added.catalog
                         ELSE record_hit(catalog, now, r.normalized, r.voice, {})
           /\ nextId' = added.nextId
           /\ hot' = st.hot
           /\ files' = st.files
           /\ VarietyRespond(r, 200, "provider", {audio_data})
    /\ reqs' = reqs \ {r}
    /\ Spawn(catalog', r)
    /\ UNCHANGED <<now, started, evictor, gatewayVars, schema, settings, write_counter,
                   stored>>

\* the provider chain fails: the request is answered with the error and
\* step 7 is not reached
VarietyReqSynthFail(r) ==
    /\ r.pc = "synth"
    /\ calls' = calls + 1
    /\ reqs' = reqs \ {r}
    /\ VarietyRespond(r, AllProvidersFailed(<<>>).status_code, "none", {})
    /\ UNCHANGED <<catalog, nextId, hot, files, now, started, evictor, varietyVars, schema,
                   gatewayVars, settings, write_counter, stored>>

\* a background task after its provider call: it stores the next version
\* when it has audio, and removes its key on completion either way
VarietyTaskDone(t, synthesized) ==
    /\ t \in tasks
    /\ calls' = calls + 1
    /\ LET fp == t.key[1]
           voice == t.key[2]
           audio_data == [src |-> calls + 1, fmt |-> "mp3"]
           version_num == VersionChoice(get_version_count(catalog, fp, voice),
                                        settings.variety_depth)
           st == store(catalog, nextId, hot, files, now, fp, voice, audio_data,
                       "mp3", {version_num}, FALSE, settings.variety_depth)
           added == add_entry(st.catalog, st.nextId, now, fp, voice, st.path,
                              "mp3", FALSE, version_num)
       IN  IF synthesized
           THEN /\ catalog' = added.catalog
                /\ nextId' = added.nextId
                /\ hot' = st.hot
                /\ files' = st.files
           ELSE UNCHANGED <<catalog, nextId, hot, files>>
    /\ tasks' = tasks \ {t}
    /\ variety_in_flight' = variety_in_flight \ {t.key}
    /\ last' = [op |-> "variety", key |-> t.key, synthesized |-> synthesized]
    /\ UNCHANGED <<now, reqs, started, evictor, gatewayVars, schema, settings,
                   write_counter, stored>>

VarietySeed ==
    {Row(1, <<"a">>, "v1", _make_filename(<<"a">>, "v1", "mp3", 1), "mp3", FALSE, 1, 0)}

VarietyInit ==
    /\ catalog \in {{}, VarietySeed}
    /\ nextId = Cardinality(catalog) + 1
    /\ hot = load_entries(hot_clear, catalog)
    /\ files = [q \in {r.audio_path : r \in catalog} |-> [src |-> 0, fmt |-> q.ext]]
    /\ now = 0 /\ reqs = {} /\ started = 0 /\ calls = 0 /\ last = NoOp
    /\ evictor = DefaultEvictor
    /\ settings \in [fuzzy_enabled : {FALSE}, variety_depth : 1..MaxDepth]
    /\ write_counter = 0 /\ stored = << >>
    /\ GatewayIdle /\ gateway = DefaultGateway /\ VarietyIdle /\ SchemaOpened

VarietyTasks == \E t \in tasks, synthesized \in BOOLEAN : VarietyTaskDone(t, synthesized)

VarietyNext ==
    \/ \E text \in VarietyTexts, voice \in RequestVoices : VarietyReqStart(text, voice)
    \/ \E r \in reqs : VarietyReqHit(r)
    \/ \E r \in reqs : VarietyReqSynthDone(r)
    \/ \E r \in reqs : VarietyReqSynthFail(r)
    \/ VarietyTasks

\* a task that is at its provider call is resumed when the call ends
SpecVariety == VarietyInit /\ [][VarietyNext]_vars /\ WF_vars(VarietyTasks)

\* C26: at any time every key has at most one background task and the
\* single-flight set holds exactly the keys of the tasks in flight; a request
\* that ends while its key is in flight starts no task, one that ends while
\* its key is not in flight and has fewer than variety_depth > 1 versions
\* starts exactly one; every task makes one provider call and takes its key
\* out of the set when it ends; the set is empty again and again.
C26_SingleFlight ==
    /\ [](\A t1 \in tasks, t2 \in tasks : t1.key = t2.key => t1 = t2)
    /\ [](variety_in_flight = {t.key : t \in tasks})
    /\ [][\A r \in reqs \ reqs' :
             IF <<r.normalized, r.voice>> \in variety_in_flight
             THEN UNCHANGED varietyVars
             ELSE (/\ last'.status = 200
                   /\ settings.variety_depth > 1
                   /\ get_version_count(catalog', r.normalized, r.voice)
                         < settings.variety_depth)
                  => /\ Cardinality(tasks') = Cardinality(tasks) + 1
                     /\ variety_in_flight'
                           = variety_in_flight \cup {<<r.normalized, r.voice>>}]_vars
    /\ [][\A t \in tasks \ tasks' :
             /\ calls' = calls + 1
             /\ t.key \notin variety_in_flight']_vars
    /\ []<>(variety_in_flight = {})

\* a request served from the cache ended while the task of its key was in
\* flight, and no second task was started
C26_Witness ==
    /\ last.op = "speech" /\ last.source = "cache" /\ last.found_in_flight
    /\ Cardinality(tasks) = 1 /\ started = 2 /\ calls = 0
    /\ \A t \in tasks : t.key = <<last.normalized, last.voice>>

-----------------------------------------------------------------------------
(* Artifacts and the rows that refer to them.                              *)

\* C27 as stated: the bytes of an artifact file that a live catalog row
\* refers to never change: whenever a row is in the catalog before and after
\* a step and its file exists before and after, the file holds the same
\* bytes.
C27_ArtifactsImmutable ==
    [][\A r \in catalog :
          (/\ \E r2 \in catalog' : r2.id = r.id /\ r2.audio_path = r.audio_path
           /\ Exists(files, r.audio_path)
           /\ Exists(files', r.audio_path))
          => files'[r.audio_path] = files[r.audio_path]]_vars

\* the server without DELETE /v1/cache: requests for one text, in two
\* formats, and the eviction task
EvictRaceKinds ==
    {body \in RequestKinds : BodyGet(body, "input", <<>>) = <<"A">>}

EvictRaceNext ==
    \/ \E body \in EvictRaceKinds : audio_speech(body)
    \/ \E r \in reqs : ReqRecordHit(r)
    \/ \E r \in reqs : ReqSynthDone(r)
    \/ \E r \in reqs : ReqDuplicate(r)
    \/ \E r \in reqs, status \in GatewayRaises : ReqSynthFail(r, status)
    \/ PeriodicEviction
    \/ Tick

SpecEvictRace == Init /\ [][EvictRaceNext]_vars

\* C28: however evictor runs and the writes of the miss path for one
\* (fingerprint, voice) interleave, every catalog row has a file at its
\* audio_path, in every state and so once both have completed.
C28_LiveRowsHaveFiles ==
    \A r \in catalog : Exists(files, r.audio_path)

\* a request was suspended at the provider call while the evictor removed
\* the row of its key; it then wrote the artifact again and inserted the
\* row anew
C28_Witness ==
    /\ last.op = "speech" /\ last.pc = "synth" /\ last.source = "provider"
    /\ last.id = 2 /\ last.match_type = "none" /\ last.before = {}
    /\ reqs = {} /\ calls = 2
    /\ \E r \in catalog :
          /\ catalog = {r} /\ r.id = 2
          /\ r.text_normalized = last.normalized
          /\ Exists(files, r.audio_path)
          /\ files[r.audio_path].src = 2

-----------------------------------------------------------------------------
(* normalize on its own: every text of up to MaxInputLen characters over   *)
(* a digit, letters of both cases, a space and a punctuation mark.         *)

MaxInputLen == 3

NormalizeChars == {"3", "a", "A", " ", "!"}

NormalizeInputs ==
    UNION {[1..n -> NormalizeChars] : n \in 0..MaxInputLen}

NormalizeInit ==
    /\ last \in {[op |-> "input", text |-> s] : s \in NormalizeInputs}
    /\ catalog = {} /\ nextId = 1 /\ hot = hot_clear /\ files = << >>
    /\ now = 0 /\ reqs = {} /\ started = 0 /\ calls = 0
    /\ evictor = DefaultEvictor /\ Untouched

\* normalize(text), and normalize applied to what it returned
NormalizeCall ==
    /\ last.op = "input"
    /\ \E once \in {normalize(last.text, DefaultNormalizeConfig)} :
       \E twice \in {normalize(once, DefaultNormalizeConfig)} :
          last' = [op |-> "normalize", text |-> last.text, once |-> once,
                   twice |-> twice]
    /\ UNCHANGED <<catalog, nextId, hot, files, now, reqs, started, calls, evictor,
                   varietyVars, schema, gatewayVars, settings, write_counter, stored>>

SpecNormalize == NormalizeInit /\ [][NormalizeCall]_vars

\* C29 as stated: normalize is idempotent under the default rule set:
\* normalize(normalize(s)) = normalize(s) for every input s, inputs with
\* digits included.
C29_NormalizeIdempotent ==
    last.op = "normalize" => last.twice = last.once

-----------------------------------------------------------------------------
(* The HotCache on its own: calls of load_entries, add, remove and the two *)
(* lookups.  stored is the set of <<voice, fingerprint, path>> handed to   *)
(* add or load_entries so far.                                             *)

HotFps == {<<"a">>, <<"a", "b">>}
HotVoices == {"v1", "v2"}
HotPaths == {"/1.mp3", "/2.mp3"}
HotEntries == [voice_id : HotVoices, text_normalized : HotFps, audio_path : HotPaths]

HotAdd(fp, voice, path) ==
    /\ hot' = hot_add(hot, fp, voice, path, settings.variety_depth)
    /\ stored' = stored \cup {<<voice, fp, path>>}
    /\ last' = [op |-> "add", fp |-> fp, voice |-> voice, path |-> path]
    /\ UNCHANGED <<catalog, nextId, files, now, reqs, started, calls, evictor, varietyVars, schema, gatewayVars, settings, write_counter>>

HotRemove(fp, voice) ==
    /\ hot' = hot_remove(hot, fp, voice)
    /\ last' = [op |-> "remove", fp |-> fp, voice |-> voice]
    /\ UNCHANGED <<catalog, nextId, files, now, reqs, started, calls, evictor, varietyVars, schema, gatewayVars, settings, write_counter, stored>>

HotLoad(entries) ==
    /\ hot' = load_from(hot, entries)
    /\ stored' = stored \cup {<<e.voice_id, e.text_normalized, e.audio_path>> :
                                 e \in Range(entries)}
    /\ last' = [op |-> "load"]
    /\ UNCHANGED <<catalog, nextId, files, now, reqs, started, calls, evictor, varietyVars, schema, gatewayVars, settings, write_counter>>

HotLookup(fp, voice) ==
    /\ last' = [op |-> "lookup", fp |-> fp, voice |-> voice]
    /\ UNCHANGED <<catalog, nextId, hot, files, now, reqs, started, calls, evictor, varietyVars, schema, gatewayVars, settings, write_counter, stored>>

HotInit ==
    /\ catalog = {} /\ nextId = 1 /\ hot = hot_clear /\ files = << >>
    /\ now = 0 /\ reqs = {} /\ started = 0 /\ calls = 0 /\ last = NoOp
    /\ evictor = DefaultEvictor
    /\ settings \in [fuzzy_enabled : {TRUE}, variety_depth : 1..MaxDepth]
    /\ write_counter = 0 /\ stored = {}
    /\ GatewayIdle /\ gateway = DefaultGateway /\ VarietyIdle /\ SchemaOpened

\* the lists load_entries is given: one entry, or two entries of one key
HotLoads ==
    {<<e>> : e \in HotEntries} \cup
    {es \in HotEntries \X HotEntries :
        es[1].voice_id = es[2].voice_id /\ es[1].text_normalized = es[2].text_normalized}

\* what the lookup that was just made returned
LastExact == exact_lookup(hot, last.fp, last.voice)
LastFuzzy == fuzzy_lookup(hot, last.fp, last.voice, FuzzyThreshold)

HotCalls ==
    \/ \E fp \in HotFps, voice \in HotVoices, path \in HotPaths : HotAdd(fp, voice, path)
    \/ \E fp \in HotFps, voice \in HotVoices : HotRemove(fp, voice)
    \/ \E fp \in HotFps, voice \in HotVoices : HotLookup(fp, voice)

HotNext ==
    \/ HotCalls
    \/ \E entries \in HotLoads : HotLoad(entries)

SpecHot == HotInit /\ [][HotNext]_vars

SpecHotCalls == HotInit /\ [][HotCalls]_vars

NoDuplicates(paths) ==
    \A i, j \in 1..Len(paths) : paths[i] = paths[j] => i = j

\* C35: after any sequence of add and remove, every path list has no duplicate
\* and at most variety_depth paths; an add of a listed path, or of a new path
\* to a list at the cap, leaves the whole cache as it was, any other add
\* appends the path to the list of its key alone; remove drops the key with
\* all its paths and leaves every other key and voice as it was.
C35_CappedLists ==
    /\ [](\A k \in DOMAIN hot :
             NoDuplicates(hot[k]) /\ Len(hot[k]) <= settings.variety_depth)
    /\ [][/\ last'.op = "add" =>
               LET paths == get_paths(hot, last'.fp, last'.voice)
                   key == <<last'.voice, last'.fp>>
               IN  IF last'.path \in Range(paths) \/ Len(paths) >= settings.variety_depth
                   THEN hot' = hot
                   ELSE /\ DOMAIN hot' = DOMAIN hot \cup {key}
                        /\ hot'[key] = Append(paths, last'.path)
                        /\ \A k \in DOMAIN hot \ {key} : hot'[k] = hot[k]
          /\ last'.op = "remove" =>
               /\ DOMAIN hot' = DOMAIN hot \ {<<last'.voice, last'.fp>>}
               /\ \A k \in DOMAIN hot' : hot'[k] = hot[k]]_vars

\* an add of a new path met a list at the cap and the list is as it was,
\* while the same fingerprint is held under the other voice
C35_Witness ==
    /\ last.op = "add"
    /\ last.path \notin Range(get_paths(hot, last.fp, last.voice))
    /\ Len(get_paths(hot, last.fp, last.voice)) = settings.variety_depth
    /\ \E k \in DOMAIN hot : k[2] = last.fp /\ k[1] # last.voice

-----------------------------------------------------------------------------
(* cache/metadata.py: CacheMetadataDB._init_db over a database file left   *)
(* by the v1 release.  schema.version is the row of schema_version (0 when *)
(* there is none), schema.table whether cache_entries exists and           *)
(* schema.version_num whether it has that column; a row of a table         *)
(* without the column has no such field.                                   *)

MaxV1Rows == 3
MaxV1Hits == 1

\* a row of the v1 table
V1Row(id, fp, voice, hits) ==
    [id |-> id, text_normalized |-> fp, voice_id |-> voice,
     audio_path |-> [dir |-> "audio", fp |-> fp, voice |-> voice, ver |-> id, ext |-> "mp3"],
     audio_format |-> "mp3", hit_count |-> hits, is_filler |-> FALSE,
     created_at |-> 0, last_hit_at |-> 0]

\* ALTER TABLE cache_entries ADD COLUMN version_num INTEGER DEFAULT 1
AddColumn(r) ==
    [id |-> r.id, text_normalized |-> r.text_normalized, voice_id |-> r.voice_id,
     audio_path |-> r.audio_path, audio_format |-> r.audio_format,
     hit_count |-> r.hit_count, is_filler |-> r.is_filler, version_num |-> 1,
     created_at |-> r.created_at, last_hit_at |-> r.last_hit_at]

\* the mutated window: rows are numbered by id alone
RowNumber_ById(rows, r) ==
    1 + Cardinality({q \in rows : /\ q.text_normalized = r.text_normalized
                                  /\ q.voice_id = r.voice_id
                                  /\ q.id < r.id})

\* ROW_NUMBER() OVER (PARTITION BY text_normalized, voice_id
\*                    ORDER BY hit_count DESC, id ASC)
RowNumber(rows, r) ==
    1 + Cardinality({q \in rows : /\ q.text_normalized = r.text_normalized
                                  /\ q.voice_id = r.voice_id
                                  /\ \/ q.hit_count > r.hit_count
                                     \/ q.hit_count = r.hit_count /\ q.id < r.id})

\* _migrate_to_v2: the column is added unless it is there, the rows numbered
\* above 1 are deleted, the indexes are created
_migrate_to_v2(rows, sch) ==
    LET altered == IF sch.version_num THEN rows ELSE {AddColumn(r) : r \in rows}
    IN  [rows |-> {r \in altered : RowNumber(altered, r) = 1},
         schema |-> [sch EXCEPT !.version_num = TRUE]]

\* _create_tables_v2
_create_tables_v2(rows, sch) ==
    [rows |-> rows, schema |-> [sch EXCEPT !.table = TRUE, !.version_num = TRUE]]

\* _init_db
_init_db(rows, sch) ==
    IF sch.version < CURRENT_SCHEMA_VERSION
    THEN LET done == IF sch.table THEN _migrate_to_v2(rows, sch)
                     ELSE _create_tables_v2(rows, sch)
         IN  [rows |-> done.rows,
              schema |-> [done.schema EXCEPT !.version = CURRENT_SCHEMA_VERSION]]
    ELSE [rows |-> rows, schema |-> sch]

\* CacheMetadataDB(db_path)
OpenCatalog ==
    /\ catalog' = _init_db(catalog, schema).rows
    /\ schema' = _init_db(catalog, schema).schema
    /\ last' = [op |-> "open", rows |-> catalog, schema |-> schema]
    /\ UNCHANGED <<nextId, hot, files, now, reqs, started, calls, evictor, varietyVars, gatewayVars, settings, write_counter, stored>>

\* the process ends after the ALTER of _migrate_to_v2, which sqlite3 commits
\* on its own, and before conn.commit()
OpenInterrupted ==
    /\ schema.version < CURRENT_SCHEMA_VERSION /\ schema.table /\ ~schema.version_num
    /\ catalog' = {AddColumn(r) : r \in catalog}
    /\ schema' = [schema EXCEPT !.version_num = TRUE]
    /\ last' = [op |-> "interrupted"]
    /\ UNCHANGED <<nextId, hot, files, now, reqs, started, calls, evictor, varietyVars, gatewayVars, settings, write_counter, stored>>

\* the tables a v1 release can have left: up to MaxV1Rows rows with ids from
\* 1, any fingerprints, voices and hit counts; a database file without tables
V1Catalogs ==
    UNION {{ {V1Row(id, f[id][1], f[id][2], f[id][3]) : id \in ids} :
               f \in [ids -> CatalogFps \X Voices \X (0..MaxV1Hits)] } :
             ids \in SUBSET (1..MaxV1Rows)}

MigrateInit ==
    /\ catalog \in V1Catalogs
    /\ schema \in [version : {0, 1}, table : BOOLEAN, version_num : {FALSE}]
    /\ ~schema.table => catalog = {} /\ schema.version = 0
    /\ nextId = MaxV1Rows + 1 /\ hot = hot_clear /\ files = << >>
    /\ now = 0 /\ reqs = {} /\ started = 0 /\ calls = 0 /\ last = NoOp
    /\ evictor = DefaultEvictor /\ settings = DefaultSettings
    /\ write_counter = 0 /\ stored = << >>
    /\ GatewayIdle /\ gateway = DefaultGateway /\ VarietyIdle

MigrateNext == OpenCatalog \/ OpenInterrupted

SpecMigrate == MigrateInit /\ [][MigrateNext]_vars

\* the rows of one (text_normalized, voice_id)
RowsOfPair(rows, r) ==
    {q \in rows : q.text_normalized = r.text_normalized /\ q.voice_id = r.voice_id}

\* C32: after a database with a recorded version below the current one and a
\* cache_entries table is opened, every (text_normalized, voice_id) it held
\* has exactly one row, the one with the highest hit_count and, on a tie, the
\* smallest id, with version_num 1 and its other columns as they were; no
\* other row is there; the recorded version is the current one; and opening
\* a database whose recorded version is current changes nothing.
C32_MigrationDeduplicates ==
    last.op = "open" =>
        IF last.schema.version < CURRENT_SCHEMA_VERSION
        THEN /\ schema.version = CURRENT_SCHEMA_VERSION
             /\ \A r \in last.rows :
                   \E k \in RowsOfPair(last.rows, r) :
                      /\ \A q \in RowsOfPair(last.rows, r) :
                            \/ q.hit_count < k.hit_count
                            \/ q.hit_count = k.hit_count /\ q.id >= k.id
                      /\ RowsOfPair(catalog, r) = {AddColumn(k)}
             /\ \A c \in catalog : RowsOfPair(last.rows, c) # {}
             /\ _init_db(catalog, schema).rows = catalog
        ELSE catalog = last.rows /\ schema = last.schema

\* a v1 table was opened in which a key had a row with more hits than an
\* older row of the same key and a third row tied with it: the row kept is
\* not the oldest of its key
C32_Witness ==
    /\ last.op = "open" /\ last.schema.version < CURRENT_SCHEMA_VERSION
    /\ \E a \in catalog, b \in last.rows, c \in last.rows :
          /\ b \in RowsOfPair(last.rows, a) /\ c \in RowsOfPair(last.rows, a)
          /\ b.id < a.id /\ b.hit_count < a.hit_count
          /\ c.id > a.id /\ c.hit_count = a.hit_count

\* C33: a store either ends without error, with the artifact file written,
\* the HotCache listing its path and one catalog row inserted for it, or
\* ends in IntegrityError with the files and the HotCache exactly as they
\* were before the call.
C33_StoreAtomic ==
    [][last'.op = "store" =>
          IF last'.error = "none"
          THEN /\ Exists(files', last'.path) /\ files'[last'.path] = last'.audio
               /\ last'.path \in Range(get_paths(hot', last'.normalized, last'.voice))
               /\ \E r \in catalog' \ catalog :
                     r.audio_path = last'.path /\ catalog' = catalog \cup {r}
          ELSE files' = files /\ hot' = hot]_vars

-----------------------------------------------------------------------------
(* The server asked for one text in two formats, one request at a time,    *)
(* with an evictor that removes every row (max_entries 0, as the tests     *)
(* build it) and was built with or without the HotCache.                   *)

MaxSerial == 4

\* a request arrives while no other is being served
ReqStartAlone(text, voice, fmt) ==
    /\ started < MaxSerial
    /\ reqs = {}
    /\ ReqBegin(text, voice, fmt)

SerialInit ==
    /\ catalog = {} /\ nextId = 1 /\ hot = hot_clear /\ files = << >>
    /\ now = 0 /\ reqs = {} /\ started = 0 /\ calls = 0 /\ last = NoOp
    /\ evictor \in [max_entries : {0}, min_age_days : {MinAgeDays},
                    hot_cache : BOOLEAN]
    /\ settings = DefaultSettings
    /\ write_counter = 0 /\ stored = << >>
    /\ GatewayIdle /\ gateway = DefaultGateway /\ VarietyIdle /\ SchemaOpened

SerialNext ==
    \/ \E body \in EvictRaceKinds :
          ReqStartAlone(BodyGet(body, "input", <<>>), BodyGet(body, "voice", "Decent_Boy"),
                        BodyGet(body, "response_format", "mp3"))
    \/ \E r \in reqs : ReqRecordHit(r)
    \/ \E r \in reqs : ReqSynthDone(r)
    \/ \E r \in reqs : ReqDuplicate(r)
    \/ \E r \in reqs, status \in GatewayRaises : ReqSynthFail(r, status)
    \/ PeriodicEviction
    \/ Tick

SpecSerial == SerialInit /\ [][SerialNext]_vars

\* C34: an evictor run ends without error whether or not the artifact files
\* exist; every row it removes has no artifact file afterwards and, when the
\* evictor has the HotCache, no path under its (fingerprint, voice); a
\* request that arrives while its key has no catalog row takes the miss
\* path, and when it has stored its audio the key has exactly one row.
C34_EvictionIsComplete ==
    /\ [][last'.op = "evict" /\ last' # last =>
             /\ last'.error = "none"
             /\ \A r \in catalog \ catalog' :
                   /\ ~Exists(files', r.audio_path)
                   /\ evictor.hot_cache =>
                         exact_lookup(hot', r.text_normalized, r.voice_id) = {}]_vars
    /\ [][started' = started + 1 =>
             \A r \in reqs' :
                (/\ r.id = started'
                 /\ RowsOfKey(catalog, r.normalized, r.voice) = {})
                => r.pc = "synth"]_vars
    /\ [][\A r \in reqs \ reqs' :
             (/\ r.pc = "synth" /\ last'.id = r.id /\ last'.status = 200
              /\ RowsOfKey(catalog, r.normalized, r.voice) = {})
             => Cardinality(RowsOfKey(catalog', r.normalized, r.voice)) = 1]_vars

\* the store called without version_num only, lookups and evictor runs
StoreAutoNext ==
    \/ \E text \in StoreTexts, voice \in StoreVoices : StoreWith(text, voice, "mp3", {{}})
    \/ \E text \in StoreTexts, voice \in StoreVoices : LookupCall(text, voice)
    \/ EvictorRun

SpecStoreAuto == StoreInit /\ [][StoreAutoNext]_vars

\* C36: under stores without version_num and evictor runs, the version_num
\* values of every (fingerprint, voice) are exactly 1..k for some k of
\* 0..variety_depth.
C36_DenseVersions ==
    \A r \in catalog :
        \E k \in 1..settings.variety_depth :
            {q.version_num : q \in RowsOfKey(catalog, r.text_normalized, r.voice_id)} = 1..k

\* C37: a circuit that is open stays open, with a deadline no earlier than
\* the one it has, in every step after which its deadline has not passed:
\* no step of any synthesize call closes it before cooldown_seconds are over.
C37_OpenUntilCooldown ==
    [][\A name \in Range(FallbackChain) :
          (/\ circuit[name].open_until > clock
           /\ circuit[name].open_until > clock')
          => circuit'[name].open_until >= circuit[name].open_until]_vars

\* C38: when a request has been answered and no request is in flight, every
\* file of the artifact directory is the audio_path of some catalog row.
C38_NoUnreferencedArtifact ==
    (last.op = "speech" /\ last.status = 200 /\ reqs = {}) =>
        \A path \in DOMAIN files :
            path.dir = "audio" => \E r \in catalog : r.audio_path = path

\* C39: the media type of every response with status 200 is the one of the
\* format of the bytes in its body.
C39_MediaTypeMatchesBytes ==
    (last.op = "speech" /\ last.status = 200) =>
        \A audio_data \in last.body : last.media_type = content_type(audio_data.fmt)

\* C40: when the last request answered was a hit whose file was missing, went
\* on to the provider and stored the audio, and nothing was evicted since,
\* a request that arrives for the same (fingerprint, voice) takes the hit
\* path: it is served from the cache without a provider call.
C40_CacheHeals ==
    [][started' = started + 1 =>
          \A r \in reqs' :
             (/\ r.id = started'
              /\ last.op = "speech" /\ last.status = 200
              /\ last.match_type # "none" /\ last.source = "provider"
              /\ last.wrote # {}
              /\ r.normalized = last.normalized /\ r.voice = last.voice)
             => r.pc = "record_hit"]_vars

=============================================================================
